---------------------------- MODULE Spec2Model ----------------------------
(***************************************************************************)
(* A model of the SocksStrata SOCKS5 gateway.                              *)
(*                                                                         *)
(*   SpecConn    one inbound session, handleConn (server.go), byte by byte *)
(*   SpecChain   the chain dialer, dialChain (chain.go)                    *)
(*   SpecAccept  the accept loop and its semaphore, main                   *)
(*   SpecRelay   the relay, proxy (proxy.go), and FairSpecRelay with the   *)
(*               fairness of the two copy goroutines                       *)
(*                                                                         *)
(* Every specification runs over the same variables; the variables of the  *)
(* parts a specification does not model stay at their initial value.       *)
(***************************************************************************)
EXTENDS Integers, Sequences, FiniteSets, TLC

(***************************************************************************)
(* Bounds of the model.                                                    *)
(***************************************************************************)
\* longest length-prefixed field (methods, username, password, domain) a
\* modelled client sends in full
MaxLen == 2
\* dialChain calls of one behaviour
MaxCalls == 2
\* last value of the clock
MaxTime == 1
\* largest max_connections of a configuration
MaxCap == 2
\* reload ticks, health ticks and dialChain calls of the control-plane model
MaxReloads == 2
MaxHealthTicks == 2
MaxDials == 2
\* the ttl of the combo cache and the end of the expirer's clock, in its ticks
Ttl == 2
MaxClock == 6
\* the idle timeout of the relay, in ticks of its clock
IdleTimeout == 2
\* connectThrough calls of one dialChain call in the model of connectProxy
MaxAttempts == 2

(***************************************************************************)
(* Bytes the modelled client may put in a header position: the values the  *)
(* code compares against (0x00, 0x01, 0x02, 0x03, 0x04, 0x05) and 0xFF.    *)
(***************************************************************************)
ByteVals == {0, 1, 2, 3, 4, 5, 255}
\* method bytes on offer: no-auth, GSSAPI, username/password
MethodVals == {0, 1, 2}
\* bytes of user names and passwords: 'a', 'b'
CredVals == {97, 98}
\* bytes of domain names: 'x', 'y'
NameVals == {120, 121}
IPv4Inputs == {<<127, 0, 0, 1>>, <<10, 0, 0, 2>>}
IPv6Inputs == {<<0, 0, 0, 0, 0, 0, 0, 0, 0, 0, 0, 0, 0, 0, 0, 1>>}
PortInputs == {<<0, 80>>, <<1, 187>>}
\* local addresses of the first established TCP leg
LocalAddrs == {[ip |-> <<127, 0, 0, 1>>, port |-> 4660],
               [ip |-> <<0, 0, 0, 0, 0, 0, 0, 0, 0, 0, 0, 0, 0, 0, 0, 1>>, port |-> 258]}

(***************************************************************************)
(* The username table handed to handleConn: username -> ChainState.  A     *)
(* ChainState is named by its user; its chain is a sequence of hop names.  *)
(***************************************************************************)
UserA == <<97>>
UserB == <<98, 97>>
PassA == <<98>>
PassB == <<97, 97>>
NoTable == [u \in {} |-> [password |-> <<>>, chain |-> <<>>]]
Tables ==
    { NoTable,
      [u \in {UserA} |-> [password |-> PassA, chain |-> <<>>]],
      [u \in {UserA} |-> [password |-> PassA, chain |-> <<"h1", "h2">>]],
      [u \in {UserA, UserB} |->
          IF u = UserA THEN [password |-> PassA, chain |-> <<"h1">>]
                       ELSE [password |-> PassB, chain |-> <<>>]] }
\* the nil *ChainState
NilState == <<>>

(***************************************************************************)
(* The proxies of the configuration: hop h1 is the pool {P, Q}, hop h2 the *)
(* pool {A, B}; T is the destination of the CONNECT request.               *)
(***************************************************************************)
Hops == {"h1", "h2"}
\* a third pool, of all four proxies, for the runs of orderedProxies on its own
SelHop == "h3"
HopProxies ==
    [h \in Hops \cup {SelHop} |->
        IF h = "h1" THEN <<"P", "Q">>
        ELSE IF h = "h2" THEN <<"A", "B">> ELSE <<"P", "Q", "A", "B">>]
Proxies == {"P", "Q", "A", "B"}
Priority == [p \in Proxies |-> IF p = "A" THEN 2 ELSE 1]
Target == "T"
Strategies == {"rr", "random", "priority"}
\* the strategies of h1 and h2 in the configurations of the model
StrategyChoices ==
    { [h \in Hops |-> "rr"],
      [h \in Hops |-> IF h = "h1" THEN "random" ELSE "priority"],
      [h \in Hops |-> IF h = "h1" THEN "priority" ELSE "random"] }
\* the tables whose chains the chain dialer is run on
ChainTables ==
    { [u \in {UserA} |-> [password |-> PassA, chain |-> <<"h1", "h2">>]],
      [u \in {UserA} |-> [password |-> PassA, chain |-> <<"h2">>]] }
\* the inbound connections that arrive at the listener
Conns == {"c1", "c2", "c3", "c4"}
\* the two connections handed to proxy(a, b), and its two copy goroutines:
\* "ba" is copyConn(a, b), "ab" is copyConn(b, a)
Sides == {"a", "b"}
Tasks == {"ba", "ab"}
Dst(t) == IF t = "ba" THEN "a" ELSE "b"
Src(t) == IF t = "ba" THEN "b" ELSE "a"
(***************************************************************************)
(* The configurations of the control-plane model.  A chain is one hop: k1  *)
(* is the pool {P, Q}, k2 the pool {P}.  Every load makes new Hop and      *)
(* Proxy objects: <<g, i>> is the ChainState built from entry i of the     *)
(* g-th configuration, <<g, i, n>> the Proxy object named n of its hop.    *)
(***************************************************************************)
UserChain(u, pw, k) == [Username |-> u, Password |-> pw, Chain |-> k]
HopNames(k) == IF k = "k1" THEN <<"P", "Q">> ELSE <<"P">>
FileOne == [valid |-> TRUE, chains |-> <<UserChain("u1", 1, "k1")>>]
FilePass == [valid |-> TRUE, chains |-> <<UserChain("u1", 2, "k1")>>]
FileTwo == [valid |-> TRUE,
            chains |-> <<UserChain("u1", 1, "k1"), UserChain("u2", 1, "k2")>>]
FileDup == [valid |-> TRUE,
            chains |-> <<UserChain("u1", 1, "k1"), UserChain("u1", 2, "k2")>>]
FileInvalid == [valid |-> FALSE, chains |-> <<>>]
FileSolo == [valid |-> TRUE, chains |-> <<UserChain("u1", 1, "k2")>>]
\* what a reload tick may find in the configuration file
ReloadFiles == {FileOne, FilePass, FileTwo, FileDup, FileInvalid}
MaxGen == MaxReloads + 1
AllStates == (1..MaxGen) \X (1..2)
AllProxyObjs == (1..MaxGen) \X (1..2) \X {"P", "Q"}
\* no reload tick yet, no health tick yet, no session bound
NoReload == [seen |-> FALSE]
NoCollect == [seen |-> FALSE]
NoState == <<>>

\* the goroutines that call dialChain
AllCallers == {"d1", "d2"}
\* state.cache = nil
NoCache == [id |-> 0, combo |-> <<>>, lastUsed |-> 0]

VARIABLES
    \* ---- handleConn ----
    chains,      \* the table passed to handleConn
    pc,          \* position of the session in handleConn
    blen,        \* nmethods, ulen, plen or dlen: length of the field to read next
    methods,     \* buf[:nmethods] after the greeting
    method,      \* the selected method, 255 while none
    greet,       \* VER and NMETHODS as read, <<>> before
    uname,       \* user name read in the sub-negotiation
    passwd,      \* password read in the sub-negotiation
    req,         \* VER, CMD, RSV and ATYP of the request as read, <<>> before
    state,       \* the bound ChainState (its user), NilState for nil
    atyp,        \* ATYP of the request
    host,        \* decoded destination host
    port,        \* decoded destination port
    out,         \* byte strings handed to conn.Write, in order
    trace,       \* peer-visible events of the session, in order
    connOpen,    \* the inbound connection is open
    remoteOpen,  \* the outbound connection is open
    dialKind,    \* "none", "direct" or "chain"
    dialErr,     \* err of the upstream establishment
    acquired,    \* state.acquire() ran and its deferred release is pending
    refs,        \* ChainState.refs per user
    reached,     \* the positions the session has been at
    werr,        \* a conn.Write of the session failed
    \* ---- chain dialer ----
    alive,       \* Proxy.alive
    net,         \* the network: each endpoint is "up", "down" or "flaky"
    strategy,    \* Hop.Strategy
    rrCount,     \* Hop.rrCount
    priorityRR,  \* Hop.priorityRR: per hop, priority -> counter
    cache,       \* ChainState.cache per user
    now,         \* the clock
    dial,        \* per caller: its dialChain call
    calls,       \* dialChain calls started so far
    \* ---- accept loop ----
    maxConns,    \* cfg.General.MaxConnections
    sem,         \* tokens in the semaphore channel
    status,      \* per inbound connection: where it is
    wg,          \* the WaitGroup of the sessions
    ctxDone,     \* the root context is cancelled
    lnOpen,      \* the listener is open
    doneClosed,  \* the done channel is closed
    acceptErrs,  \* an Accept error has been logged
    load,        \* per inbound connection: the tokens in sem when it was accepted
    apc,         \* position of main in its accept loop
    \* ---- relay ----
    rpc,         \* per copy goroutine: its position in copyConn
    closed,      \* per side: the connection has been closed by the relay
    peer,        \* per side: what the far end has done: "open", "eof", "reset"
    avail,       \* per side: bytes from the far end wait to be read
    relayWg,     \* the WaitGroup of proxy
    returned,    \* proxy has returned
    relayLog,    \* the log lines of the relay
    rdl,         \* per side: time left until its read deadline, 0 when passed
    wdl,         \* per side: time left until its write deadline, 0 when passed
    idle,        \* per copy goroutine: time since it started or last transferred
    moved,       \* per copy goroutine: it has transferred bytes
    \* ---- control plane: reload, health checks, sessions on the table ----
    loaded,      \* the Chains of every configuration built so far, startup first
    userChains,  \* the published table: user name -> ChainState object
    cfgChains,   \* the configuration cfg.Chains belongs to (index into loaded)
    palive,      \* Proxy.alive per Proxy object
    hopRR,       \* Hop.rrCount of the hop of each ChainState object
    csCache,     \* ChainState.cache per object: the combo, <<>> for nil
    csRefs,      \* ChainState.refs per object
    retiring,    \* the ChainState objects a cleanupChain goroutine waits on
    reloads,     \* reload ticks so far
    lastReload,  \* what the last reload tick loaded, and the state around it
    hticks,      \* health ticks so far
    probing,     \* the probes of the running health tick per Proxy object
    collected,   \* what the last health tick collected, and the table then
    markedSince, \* Proxy objects a dial marked dead since their last probe
    streak,      \* per Proxy object: the outcome of its last probe, and the transitions
                 \* logged in its run of probes with that outcome
    sess,        \* the session of the control-plane model
    dials,       \* dialChain calls so far
    csUsed,      \* cachedChain.lastUsed per ChainState object
    cnow,        \* time.Now() of the control plane
    due,         \* the time of the next tick of the expirer's ticker
    cleared,     \* what the expirer has cleared: object and age of the entry
    \* ---- one upstream establishment: connectThrough, connectProxy ----
    tun,         \* the connectThrough call: combo, hop index, conduit, position,
                 \* the messages exchanged with the upstream, its result
    socks,       \* the TCP connections DialContext has opened: peer, open or closed
    hs,          \* the handleConn that dials: its position, its chain, conn open
    \* ---- retirement of displaced ChainStates against sessions ----
    rsess,       \* per session: position, table snapshot, user, bound ChainState
    cleanup,     \* per ChainState object: position of its cleanupChain goroutine
    pendingTable,\* the map a reload tick has built and not yet stored
    retLog,      \* what cleanupChain goroutines cleared: object, refs, ctx, published
    published,   \* every table userChains.Store has published
    \* ---- orderedProxies under concurrent callers ----
    sel,         \* per caller: its orderedProxies call
    selLog,      \* the orderedProxies calls that returned, in order of their counter read
    \* ---- one health checker ----
    hc           \* the health checker: tick, semaphore, probes of the round

sessVars == <<pc, blen, methods, method, greet, uname, passwd, req, state,
              atyp, host, port, out, trace, connOpen, remoteOpen, dialKind, dialErr,
              acquired, reached, werr>>
chainVars == <<alive, net, strategy, rrCount, priorityRR, cache, now, dial, calls>>

acceptVars == <<maxConns, sem, status, wg, ctxDone, lnOpen, doneClosed, acceptErrs,
                load, apc>>
relayTime == <<rdl, wdl, idle, moved>>
relayVars == <<rpc, closed, peer, avail, relayWg, returned, relayLog, relayTime>>

ctlVars == <<loaded, userChains, cfgChains, palive, hopRR, csCache, csRefs, retiring,
             reloads, lastReload, hticks, probing, collected, markedSince, streak,
             sess, dials, csUsed, cnow, due, cleared>>
\* the clock of the control plane and what depends on it
expVars == <<csUsed, cnow, due, cleared>>

tunVars == <<tun, socks, hs>>
retVars == <<rsess, cleanup, pendingTable, retLog, published>>
selVars == <<sel, selLog>>
extVars == <<retVars, selVars, hc>>

vars == <<chains, refs, sessVars, chainVars, acceptVars, relayVars, ctlVars, tunVars, extVars>>

(***************************************************************************)
(* io.ReadFull(conn, buf[:n]) with the bytes drawn from vals: the n bytes, *)
(* or an error (EOF, timeout) when the client does not send them.          *)
(***************************************************************************)
ReadErr == [ok |-> FALSE, data |-> <<>>]
ReadFull(n, vals) ==
    IF n = 0 THEN {[ok |-> TRUE, data |-> <<>>]}
    ELSE {ReadErr} \cup {[ok |-> TRUE, data |-> d] : d \in [1..n -> vals]}
\* a length-prefixed field: a client of the model sends at most MaxLen bytes of it
ReadField(n, vals) == IF n <= MaxLen THEN ReadFull(n, vals) ELSE {ReadErr}

\* the replies of the server
MethodReply(m) == <<5, m>>
AuthReply(st) == <<1, st>>
\* an error reply that always carries REP 0x01
ErrReplyGeneral(rep) == <<5, 1, 0, 1, 0, 0, 0, 0, 0, 0>>
\* server.go 169, 180, 214, 242
ErrReply(rep) == <<5, rep, 0, 1, 0, 0, 0, 0, 0, 0>>
PortBytes(p) == <<p \div 256, p % 256>>
OkReply(la) ==
    <<5, 0, 0, IF Len(la.ip) = 4 THEN 1 ELSE 4>> \o la.ip \o PortBytes(la.port)

\* a caller that is not in dialChain
IdleDial ==
    [pc |-> "idle", user |-> NilState, cached |-> NoCache, depth |-> 0,
     cand |-> <<>>, idx |-> <<>>, current |-> <<>>, result |-> "none",
     attempts |-> <<>>, alive0 |-> <<>>, cache0 |-> NoCache, no |-> 0]

\* the chain dialer at rest: initProxies has set every proxy alive
ChainQuiet ==
    /\ alive = [p \in Proxies |-> TRUE]
    /\ net = [e \in Proxies \cup {Target} |-> "up"]
    /\ strategy = [h \in Hops |-> "rr"]
    /\ rrCount = [h \in Hops |-> 0]
    /\ priorityRR = [h \in Hops |-> [pr \in {Priority[p] : p \in Proxies} |-> 0]]
    /\ cache = [u \in DOMAIN chains |-> NoCache]
    /\ now = 0
    /\ dial = [d \in AllCallers |-> IdleDial]
    /\ calls = 0

\* no connectThrough call yet
NoTunnel ==
    [pc |-> "idle", combo |-> <<>>, i |-> 0, conn |-> 0, base |-> 0, sent |-> <<>>,
     alive0 |-> <<>>, result |-> "none", failed |-> 0, attempts |-> 0]

\* no upstream establishment is modelled: nothing dialed, no session at its dial
TunnelQuiet ==
    /\ tun = NoTunnel
    /\ socks = <<>>
    /\ hs = [pc |-> "none", chain |-> <<>>, inbound |-> FALSE]

\* the sessions of the retirement model, the callers of orderedProxies
RSessions == {"s1", "s2"}
SelCallers == {"g1", "g2"}
NoRSess == [pc |-> "idle", table |-> <<>>, user |-> "", st |-> <<>>, seen |-> <<>>]
NoPending == [seen |-> FALSE]
IdleSel == [pc |-> "idle", list |-> <<>>]
NoChecker == [tick |-> 0, cap |-> 0, probes |-> {}]

\* no retirement, no orderedProxies caller and no health checker is modelled
ExtQuiet ==
    /\ rsess = [s \in RSessions |-> NoRSess]
    /\ cleanup = [o \in AllStates |-> "none"]
    /\ pendingTable = NoPending
    /\ retLog = {}
    /\ published = {}
    /\ sel = [c \in SelCallers |-> IdleSel]
    /\ selLog = <<>>
    /\ hc = NoChecker

\* part_002 19-28: the table buildUserChains makes of the entries of the
\* g-th configuration (defined when no user name occurs twice)
BuildUserChains(g, entries) ==
    [u \in {entries[i].Username : i \in DOMAIN entries} |->
        <<g, CHOOSE i \in DOMAIN entries : entries[i].Username = u>>]

\* part_002 35-43, 74-81: the control plane after main has loaded file f,
\* initProxies has set every proxy alive and the table has been stored
ControlStart(f) ==
    /\ loaded = <<f.chains>>
    /\ userChains = BuildUserChains(1, f.chains)
    /\ cfgChains = 1
    /\ palive = [p \in AllProxyObjs |-> TRUE]
    /\ hopRR = [o \in AllStates |-> 0]
    /\ csCache = [o \in AllStates |-> <<>>]
    /\ csRefs = [o \in AllStates |-> 0]
    /\ retiring = {}
    /\ reloads = 0
    /\ lastReload = NoReload
    /\ hticks = 0
    /\ probing = <<>>
    /\ collected = NoCollect
    /\ markedSince = {}
    /\ streak = [p \in AllProxyObjs |-> [outcome |-> "none", logs |-> 0]]
    /\ sess = [st |-> NoState, pc |-> "idle"]
    /\ dials = 0
    /\ csUsed = [o \in AllStates |-> 0]
    /\ cnow = 0
    /\ due = Ttl
    /\ cleared = {}

\* the accept loop before its first Accept, with capacity n
AcceptStart(n) ==
    /\ maxConns = n
    /\ sem = 0
    /\ status = [c \in Conns |-> "pending"]
    /\ wg = 0
    /\ ctxDone = FALSE
    /\ lnOpen = TRUE
    /\ doneClosed = FALSE
    /\ acceptErrs = FALSE
    /\ load = [c \in Conns |-> -1]
    /\ apc = "accept"

\* proxy(a, b) at its call: wg.Add(2), both goroutines about to start
RelayStartState ==
    /\ rpc = [t \in Tasks |-> "start"]
    /\ closed = [c \in Sides |-> FALSE]
    /\ peer = [c \in Sides |-> "open"]
    /\ avail = [c \in Sides |-> FALSE]
    /\ relayWg = 2
    /\ returned = FALSE
    /\ relayLog = {}
    /\ rdl = [c \in Sides |-> IdleTimeout]
    /\ wdl = [c \in Sides |-> IdleTimeout]
    /\ idle = [t \in Tasks |-> 0]
    /\ moved = [t \in Tasks |-> FALSE]

\* the session before handleConn's first read
SessionStart ==
    /\ pc = "greet"
    /\ blen = 0
    /\ methods = <<>>
    /\ method = 255
    /\ greet = <<>>
    /\ uname = <<>>
    /\ passwd = <<>>
    /\ req = <<>>
    /\ state = NilState
    /\ atyp = 0
    /\ host = <<>>
    /\ port = 0
    /\ out = <<>>
    /\ trace = <<>>
    /\ connOpen = TRUE
    /\ remoteOpen = FALSE
    /\ dialKind = "none"
    /\ dialErr = FALSE
    /\ acquired = FALSE
    /\ refs = [u \in DOMAIN chains |-> 0]
    /\ reached = {"greet"}
    /\ werr = FALSE

InitConn ==
    /\ chains \in Tables
    /\ SessionStart
    /\ ChainQuiet
    /\ AcceptStart(0)
    /\ RelayStartState
    /\ ControlStart(FileOne)
    /\ TunnelQuiet
    /\ ExtQuiet

(***************************************************************************)
(* The decisions of handleConn.                                            *)
(***************************************************************************)
\* the greeting check without its version test
GreetingOKNoVersion(ver, nm) == ~(nm = 0 \/ nm > 255)

\* server.go 27-45: VER = 0x05 and NMETHODS in 1..255
GreetingOK(ver, nm) == ver = 5 /\ ~(nm = 0 \/ nm > 255)

\* the required method when the table is not consulted
WantMethodNoAuth(ch) == 0

\* server.go 57-61
WantMethod(ch) == IF DOMAIN ch = {} THEN 0 ELSE 2

\* server.go 62-68
SelectMethod(ms, want) ==
    IF \E i \in 1..Len(ms) : ms[i] = want THEN want ELSE 255

\* the credential check without the password comparison
AuthOKAnyPassword(ch, u, p) == u \in DOMAIN ch

\* server.go 147-148
AuthOK(ch, u, p) == u \in DOMAIN ch /\ ch[u].password = p

\* the dialer choice without the test of the chain's length
UseChainDialerAnyBound(ch, st) == st # NilState

\* server.go 231
UseChainDialer(ch, st) == st # NilState /\ Len(ch[st].chain) > 0

\* ChainState.acquire / ChainState.release
Acquire(r, st) == [r EXCEPT ![st] = @ + 1]
Release(r, st) == [r EXCEPT ![st] = @ - 1]

(***************************************************************************)
(* handleConn returns: msgs are handed to conn.Write first, then the       *)
(* deferred calls run (state.release, remote.Close, conn.Close).           *)
(***************************************************************************)
FinishW(msgs, evs, failed) ==
    /\ pc' = "closed"
    /\ reached' = reached \cup {"closed"}
    /\ werr' = failed
    /\ out' = out \o msgs
    /\ trace' = trace \o evs \o <<"close">>
    /\ connOpen' = FALSE
    /\ remoteOpen' = FALSE
    /\ acquired' = FALSE
    /\ refs' = IF acquired THEN Release(refs, state) ELSE refs
    /\ UNCHANGED <<chainVars, acceptVars, relayVars, ctlVars, tunVars, extVars>>

Finish(msgs, evs) == FinishW(msgs, evs, FALSE)

\* handleConn goes on to position p after writing msgs
Continue(p, msgs, evs) ==
    /\ pc' = p
    /\ reached' = reached \cup {p}
    /\ werr' = werr
    /\ out' = out \o msgs
    /\ trace' = trace \o evs
    /\ UNCHANGED <<connOpen, remoteOpen, acquired, refs>>
    /\ UNCHANGED <<chainVars, acceptVars, relayVars, ctlVars, tunVars, extVars>>

\* a write the session depends on: conn.Write succeeds and the session goes
\* on to p, or it fails and the session returns
WriteThen(p, msg, ev) ==
    \E wok \in BOOLEAN :
        IF wok THEN Continue(p, <<msg>>, <<ev>>) ELSE FinishW(<<msg>>, <<ev>>, TRUE)

\* server.go 17-45
ReadGreeting ==
    /\ pc = "greet"
    /\ \E r \in ReadFull(2, ByteVals) :
        /\ greet' = r.data
        /\ IF r.ok /\ GreetingOK(r.data[1], r.data[2])
           THEN /\ blen' = r.data[2]
                /\ Continue("methods", <<>>, <<>>)
           ELSE /\ blen' = blen
                /\ Finish(<<MethodReply(255)>>, <<"method_refuse">>)
    /\ UNCHANGED <<passwd, req>>
    /\ UNCHANGED <<chains, methods, method, uname, state, atyp, host, port,
                   dialKind, dialErr>>

\* server.go 46-83
ReadMethods ==
    /\ pc = "methods"
    /\ \E r \in ReadField(blen, MethodVals) :
        IF ~r.ok
        THEN /\ Finish(<<MethodReply(255)>>, <<"method_refuse">>)
             /\ UNCHANGED <<methods, method>>
        ELSE LET m == SelectMethod(r.data, WantMethod(chains)) IN
             /\ methods' = r.data
             /\ method' = m
             /\ IF m = 255
                THEN Finish(<<MethodReply(255)>>, <<"method_refuse">>)
                ELSE WriteThen(IF m = 2 THEN "auth" ELSE "request",
                               MethodReply(m), "method_reply")
    /\ UNCHANGED <<greet, passwd, req>>
    /\ UNCHANGED <<chains, blen, uname, state, atyp, host, port, dialKind, dialErr>>

AuthFail == Finish(<<AuthReply(1)>>, <<"auth_fail">>)

\* server.go 86-114
ReadAuthHeader ==
    /\ pc = "auth"
    /\ \E r \in ReadFull(2, ByteVals) :
        IF r.ok /\ r.data[1] = 1 /\ ~(r.data[2] = 0 \/ r.data[2] > 255)
        THEN /\ blen' = r.data[2]
             /\ Continue("uname", <<>>, <<>>)
        ELSE /\ blen' = blen
             /\ AuthFail
    /\ UNCHANGED <<greet, passwd, req>>
    /\ UNCHANGED <<chains, methods, method, uname, state, atyp, host, port,
                   dialKind, dialErr>>

\* server.go 115-135: the user name and the PLEN byte come in one read
ReadUname ==
    /\ pc = "uname"
    /\ \E r \in ReadField(blen, CredVals), pl \in ByteVals :
        IF r.ok /\ ~(pl = 0 \/ pl > 255)
        THEN /\ uname' = r.data
             /\ blen' = pl
             /\ Continue("passwd", <<>>, <<>>)
        ELSE /\ UNCHANGED <<uname, blen>>
             /\ AuthFail
    /\ UNCHANGED <<greet, passwd, req>>
    /\ UNCHANGED <<chains, methods, method, state, atyp, host, port, dialKind, dialErr>>

\* server.go 136-164
ReadPasswd ==
    /\ pc = "passwd"
    /\ \E r \in ReadField(blen, CredVals) :
        /\ passwd' = r.data
        /\ IF r.ok /\ AuthOK(chains, uname, r.data)
           THEN /\ state' = uname
                /\ WriteThen("request", AuthReply(0), "auth_reply")
           ELSE /\ state' = state
                /\ AuthFail
    /\ UNCHANGED <<greet, req>>
    /\ UNCHANGED <<chains, blen, methods, method, uname, atyp, host, port,
                   dialKind, dialErr>>

\* server.go 165-189, 195, 206, 212-219: the request header and the switch on ATYP
ReadRequest ==
    /\ pc = "request"
    /\ \E r \in ReadFull(4, ByteVals) :
        /\ req' = r.data
        /\ IF ~r.ok
           THEN /\ Finish(<<ErrReply(1)>>, <<"err_reply">>)
                /\ atyp' = atyp
           ELSE IF r.data[1] # 5
           THEN /\ Finish(<<>>, <<>>)
                /\ atyp' = atyp
           ELSE IF r.data[2] # 1
           THEN /\ Finish(<<ErrReply(7)>>, <<"err_reply">>)
                /\ atyp' = atyp
           ELSE IF r.data[4] \notin {1, 3, 4}
           THEN /\ Finish(<<ErrReply(8)>>, <<"err_reply">>)
                /\ atyp' = r.data[4]
           ELSE /\ Continue(IF r.data[4] = 3 THEN "dlen" ELSE "addr",
                             <<>>, <<"header_read">>)
                /\ atyp' = r.data[4]
    /\ UNCHANGED <<greet, passwd>>
    /\ UNCHANGED <<chains, blen, methods, method, uname, state, host, port,
                   dialKind, dialErr>>

\* server.go 189-194, 206-211: an IPv4 or IPv6 address
ReadAddr ==
    /\ pc = "addr"
    /\ \E r \in {ReadErr} \cup
                {[ok |-> TRUE, data |-> a] :
                    a \in IF atyp = 1 THEN IPv4Inputs ELSE IPv6Inputs} :
        IF r.ok
        THEN /\ host' = r.data
             /\ Continue("port", <<>>, <<>>)
        ELSE /\ host' = host
             /\ Finish(<<>>, <<>>)
    /\ UNCHANGED <<greet, passwd, req>>
    /\ UNCHANGED <<chains, blen, methods, method, uname, state, atyp, port,
                   dialKind, dialErr>>

\* server.go 195-200: the length byte of a domain name
ReadDomainLen ==
    /\ pc = "dlen"
    /\ \E r \in ReadFull(1, ByteVals) :
        IF r.ok
        THEN /\ blen' = r.data[1]
             /\ Continue("domain", <<>>, <<>>)
        ELSE /\ blen' = blen
             /\ Finish(<<>>, <<>>)
    /\ UNCHANGED <<greet, passwd, req>>
    /\ UNCHANGED <<chains, methods, method, uname, state, atyp, host, port,
                   dialKind, dialErr>>

\* server.go 201-205
ReadDomain ==
    /\ pc = "domain"
    /\ \E r \in ReadField(blen, NameVals) :
        IF r.ok
        THEN /\ host' = r.data
             /\ Continue("port", <<>>, <<>>)
        ELSE /\ host' = host
             /\ Finish(<<>>, <<>>)
    /\ UNCHANGED <<greet, passwd, req>>
    /\ UNCHANGED <<chains, blen, methods, method, uname, state, atyp, port,
                   dialKind, dialErr>>

\* server.go 220-226
ReadPort ==
    /\ pc = "port"
    /\ \E r \in {ReadErr} \cup {[ok |-> TRUE, data |-> b] : b \in PortInputs} :
        IF r.ok
        THEN /\ port' = r.data[1] * 256 + r.data[2]
             /\ Continue("dial", <<>>, <<"request_read">>)
        ELSE /\ port' = port
             /\ Finish(<<>>, <<>>)
    /\ UNCHANGED <<greet, passwd, req>>
    /\ UNCHANGED <<chains, blen, methods, method, uname, state, atyp, host,
                   dialKind, dialErr>>

\* server.go 227-238: the upstream establishment, by dialChain or directly;
\* either may fail
Dial ==
    /\ pc = "dial"
    /\ \E okd \in BOOLEAN :
        /\ dialErr' = ~okd
        /\ remoteOpen' = okd
    /\ IF UseChainDialer(chains, state)
       THEN /\ dialKind' = "chain"
            /\ acquired' = TRUE
            /\ refs' = Acquire(refs, state)
       ELSE /\ dialKind' = "direct"
            /\ UNCHANGED <<acquired, refs>>
    /\ pc' = "dialed"
    /\ reached' = reached \cup {"dialed"}
    /\ trace' = Append(trace, "dial")
    /\ UNCHANGED <<greet, passwd, req, werr>>
    /\ UNCHANGED <<chainVars, acceptVars, relayVars, ctlVars, tunVars, extVars>>
    /\ UNCHANGED <<chains, blen, methods, method, uname, state, atyp, host, port,
                   out, connOpen>>

\* the failure branch without its return: the session goes on to the relay
ReplyFailNoReturn ==
    /\ pc = "dialed"
    /\ dialErr
    /\ Continue("replied", <<ErrReply(4)>>, <<"err_reply">>)
    /\ UNCHANGED <<greet, passwd, req>>
    /\ UNCHANGED <<chains, blen, methods, method, uname, state, atyp, host, port,
                   dialKind, dialErr>>

\* server.go 239-247
ReplyFail ==
    /\ pc = "dialed"
    /\ dialErr
    /\ Finish(<<ErrReply(4)>>, <<"err_reply">>)
    /\ UNCHANGED <<greet, passwd, req>>
    /\ UNCHANGED <<chains, blen, methods, method, uname, state, atyp, host, port,
                   dialKind, dialErr>>

\* server.go 248-267
ReplyOk ==
    /\ pc = "dialed"
    /\ ~dialErr
    /\ \E la \in LocalAddrs : WriteThen("replied", OkReply(la), "connect_reply")
    /\ UNCHANGED <<greet, passwd, req>>
    /\ UNCHANGED <<chains, blen, methods, method, uname, state, atyp, host, port,
                   dialKind, dialErr>>

\* server.go 268-271: the deadlines are cleared and proxy(remote, conn) starts
RelayStart ==
    /\ pc = "replied"
    /\ Continue("relay", <<>>, <<"relay">>)
    /\ UNCHANGED <<greet, passwd, req>>
    /\ UNCHANGED <<chains, blen, methods, method, uname, state, atyp, host, port,
                   dialKind, dialErr>>

\* server.go 271-272: proxy returns and handleConn with it
RelayReturn ==
    /\ pc = "relay"
    /\ Finish(<<>>, <<>>)
    /\ UNCHANGED <<greet, passwd, req>>
    /\ UNCHANGED <<chains, blen, methods, method, uname, state, atyp, host, port,
                   dialKind, dialErr>>

NextConn ==
    \/ ReadGreeting
    \/ ReadMethods
    \/ ReadAuthHeader
    \/ ReadUname
    \/ ReadPasswd
    \/ ReadRequest
    \/ ReadAddr
    \/ ReadDomainLen
    \/ ReadDomain
    \/ ReadPort
    \/ Dial
    \/ ReplyFail
    \/ ReplyOk
    \/ RelayStart
    \/ RelayReturn

SpecConn == InitConn /\ [][NextConn]_vars

(***************************************************************************)
(* Properties of handleConn (SpecConn).                                    *)
(***************************************************************************)
Last(s) == s[Len(s)]
IsPrefix(s, t) == Len(s) <= Len(t) /\ \A i \in 1..Len(s) : s[i] = t[i]
AuthPcs == {"auth", "uname", "passwd"}
RequestPcs == {"request", "dlen", "addr", "domain", "port", "dial", "dialed",
               "replied", "relay"}
\* the client sent a complete user name and password, and they match the table
Authenticated ==
    /\ passwd # <<>>
    /\ uname \in DOMAIN chains
    /\ chains[uname].password = passwd

\* C1: with a table of at least one user, the session reaches the request
\* phase and dials only after a username/password exchange whose user is in
\* the table and whose password is the stored one; every other outcome of the
\* sub-negotiation ends with 0x01 0x01 written, the connection closed and no
\* dial.
C1_AuthGate ==
    DOMAIN chains # {} =>
        /\ (reached \cap RequestPcs # {} \/ dialKind # "none") =>
              /\ Authenticated
              /\ state = uname
              /\ Len(out) >= 2 /\ out[1] = <<5, 2>> /\ out[2] = <<1, 0>>
        /\ (pc = "closed" /\ "auth" \in reached /\ ~Authenticated) =>
              /\ out = << <<5, 2>>, <<1, 1>> >>
              /\ ~connOpen
              /\ dialKind = "none"
              /\ reached \cap RequestPcs = {}

\* C1 witness: a known user with a wrong password has been turned away
C1_Witness ==
    /\ pc = "closed"
    /\ uname \in DOMAIN chains
    /\ passwd # <<>>
    /\ passwd # chains[uname].password
    /\ out = << <<5, 2>>, <<1, 1>> >>

\* a terminal reply: the method refusal, the authentication failure, or a
\* CONNECT reply (success or error)
TerminalReply(m) ==
    \/ m = <<5, 255>>
    \/ m = <<1, 1>>
    \/ Len(m) >= 10 /\ m[1] = 5

\* C2: when the connection is closed (and no write failed), exactly one
\* terminal reply has been written: never zero, never more than one.
C2_ExactlyOneReply ==
    (pc = "closed" /\ ~werr) =>
        Cardinality({i \in DOMAIN out : TerminalReply(out[i])}) = 1

\* C3: the required method is 0x02 when the table has a user and 0x00 when it
\* has none; if the client offers it the server answers 0x05 and the method
\* and goes on, otherwise it answers 0x05 0xFF and closes without another read.
C3_MethodSelection ==
    methods # <<>> =>
        LET want == IF Cardinality(DOMAIN chains) > 0 THEN 2 ELSE 0
            offered == want \in {methods[i] : i \in DOMAIN methods}
        IN  /\ offered =>
                /\ out[1] = <<5, want>>
                /\ ~werr => (IF want = 2 THEN "auth" ELSE "request") \in reached
            /\ ~offered =>
                /\ out = << <<5, 255>> >>
                /\ pc = "closed"
                /\ ~connOpen
                /\ reached = {"greet", "methods", "closed"}

\* C3 witness: a client that offers only 0x00 to a server with users is refused
C3_Witness ==
    /\ DOMAIN chains # {}
    /\ methods = <<0>>
    /\ pc = "closed"
    /\ out = << <<5, 255>> >>

\* C4: a greeting with a version other than 0x05, or with NMETHODS = 0, or
\* whose method bytes do not arrive, is answered 0x05 0xFF and the connection
\* closed, without entering the authentication or the request phase.
C4_BadGreeting ==
    LET badHeader == greet # <<>> /\ (greet[1] # 5 \/ greet[2] = 0)
        noMethods == "methods" \in reached /\ pc # "methods" /\ methods = <<>>
    IN  (badHeader \/ noMethods) =>
            /\ pc = "closed"
            /\ out = << <<5, 255>> >>
            /\ ~connOpen
            /\ reached \cap (AuthPcs \cup RequestPcs) = {}

\* C4 witness: the greeting 0x04 0x01 has been refused
C4_Witness == greet = <<4, 1>> /\ pc = "closed" /\ out = << <<5, 255>> >>

\* the events of a session that reaches the relay, in order
SessionOrder ==
    <<"method_reply">> \o (IF method = 2 THEN <<"auth_reply">> ELSE <<>>)
        \o <<"header_read", "request_read", "dial", "connect_reply", "relay">>
Progress(t) ==
    SelectSeq(t, LAMBDA e : e \notin {"close", "method_refuse", "auth_fail", "err_reply"})

\* C5: the events of a session occur in the order method-selection reply,
\* authentication reply (method 0x02 only), request read, upstream
\* establishment, CONNECT reply, relay; the dial starts only after header,
\* address and port have been read, the relay only after a success reply has
\* been written, and no step is repeated or skipped on the way to the relay.
C5_SessionOrder ==
    /\ IsPrefix(Progress(trace), SessionOrder)
    /\ "dial" \in reached =>
          /\ Len(req) = 4
          /\ "port" \in reached
          /\ ("addr" \in reached) # ("domain" \in reached)
    /\ "relay" \in reached =>
          /\ Progress(trace) = SessionOrder
          /\ ~werr
          /\ ~dialErr
          /\ Len(Last(out)) >= 10 /\ Last(out)[1] = 5 /\ Last(out)[2] = 0
          /\ \A i \in DOMAIN out : TerminalReply(out[i]) => i = Len(out)

\* C5 witness: an authenticated session is in the relay
C5_Witness == pc = "relay" /\ method = 2 /\ remoteOpen

\* C6: once a request header with VER 0x05 has been read, a command other
\* than CONNECT is answered REP 0x07, an unknown address type REP 0x08 and a
\* failed upstream establishment REP 0x04, each in the 10-byte form with ATYP
\* 0x01 and a zero address and port; the connection is closed and the relay
\* never starts.
C6_ErrorReplies ==
    LET header == Len(req) = 4 /\ req[1] = 5
        rep == IF header /\ req[2] # 1 THEN 7
               ELSE IF header /\ req[4] \notin {1, 3, 4} THEN 8
               ELSE IF pc = "closed" /\ dialKind # "none" /\ dialErr THEN 4
               ELSE 0
    IN  rep # 0 =>
            /\ pc = "closed"
            /\ Last(out) = <<5, rep, 0, 1, 0, 0, 0, 0, 0, 0>>
            /\ Cardinality({i \in DOMAIN out : TerminalReply(out[i])}) = 1
            /\ ~connOpen /\ ~remoteOpen
            /\ "relay" \notin reached

\* C6 witness: the upstream establishment failed and the session is over
C6_Witness == pc = "closed" /\ dialErr /\ Last(out)[2] = 4

\* C7: the upstream is dialed directly exactly when no ChainState is bound
\* (no-auth mode) or the bound ChainState's chain is empty; otherwise the chain
\* dialer is used.
C7_DialerChoice ==
    /\ (dialKind = "none") = ("dialed" \notin reached)
    /\ dialKind # "none" =>
          /\ (state = NilState) = (DOMAIN chains = {})
          /\ (dialKind = "direct") =
                (state = NilState \/ Len(chains[state].chain) = 0)
          /\ (dialKind = "chain") =
                (state # NilState /\ Len(chains[state].chain) > 0)

\* C7 witness: an authenticated user with an empty chain was dialed directly
C7_Witness == dialKind = "direct" /\ state # NilState /\ ~dialErr

\* C39: a CONNECT-stage reply (0x05 REP ...) has been written only if the
\* 4-byte request header was read in full with version 5; when the read of
\* the header failed the connection is closed with no such reply written.
C39_ReplyAfterHeader ==
    (\E i \in DOMAIN out : Len(out[i]) >= 10 /\ out[i][1] = 5) =>
        Len(req) = 4 /\ req[1] = 5

\* C30: for every ChainState, refs is never negative and equals the number
\* of live sessions that authenticated against it: 1 while the session bound
\* to it is anywhere between its auth-success reply and its exit, else 0.
C30_SessionHoldsRef ==
    \A u \in DOMAIN refs :
        /\ refs[u] >= 0
        /\ refs[u] = IF state = u /\ pc \in RequestPcs THEN 1 ELSE 0

(***************************************************************************)
(* The chain dialer (chain.go).                                            *)
(***************************************************************************)
Range(f) == {f[i] : i \in DOMAIN f}
\* a rotation that loses the proxies in front of the start
RotateDropFront(q, k) == SubSeq(q, k + 1, Len(q))
\* chain.go 84-85, 93-94: append(q[start:], q[:start]...)
Rotate(q, k) == SubSeq(q, k + 1, Len(q)) \o SubSeq(q, 1, k)
Perms(q) == {t \in [1..Len(q) -> Range(q)] : Range(t) = Range(q)}
Max(S) == CHOOSE m \in S : \A x \in S : x <= m
RECURSIVE SortDesc(_)
SortDesc(S) == IF S = {} THEN <<>> ELSE <<Max(S)>> \o SortDesc(S \ {Max(S)})

\* A uint32 counter is held as the 32-bit pattern read as a signed integer:
\* 0 .. 2^31-1 stand for themselves, -1 stands for 2^32-1, and so on down.
\* chain.go 82, 92: atomic.AddUint32(cnt, 1), which wraps from 2^32-1 to 0
U32Inc(v) == IF v = 2147483647 THEN -2147483647 - 1 ELSE v + 1
\* chain.go 83, 93: idx % uint32(n) of the counter value v, for 0 < n < 2^16:
\* a negative pattern v stands for v + 2^32, and 2^32 = 65536 * 65536
U32Mod(v, n) ==
    IF v >= 0 THEN v % n ELSE ((v % n) + ((65536 % n) * (65536 % n))) % n

\* the live filter that lets every proxy of the pool through
AliveListUnfiltered(h) == HopProxies[h]

\* chain.go 42-47: the proxies of the pool whose alive flag is set
AliveList(h) == SelectSeq(HopProxies[h], LAMBDA p : alive[p])

\* chain.go 68-76: the members of one priority class, in pool order
Group(list, pr) == SelectSeq(list, LAMBDA p : Priority[p] = pr)

\* chain.go 79-89: the groups from the highest priority down, each group of
\* more than one member rotated by its own counter
RECURSIVE PriorityOrder(_, _, _)
PriorityOrder(prs, list, cnt) ==
    IF prs = <<>> THEN <<>>
    ELSE LET grp == Group(list, Head(prs))
             rot == IF Len(grp) > 1 THEN Rotate(grp, U32Mod(cnt[Head(prs)], Len(grp)))
                    ELSE grp
         IN  rot \o PriorityOrder(Tail(prs), list, cnt)

\* an orderedProxies whose round robin reads the counter and does not add to it
OrderFromNoAdd(h, list) ==
    IF list = <<>>
    THEN {[list |-> <<>>, rr |-> rrCount[h], prr |-> priorityRR[h]]}
    ELSE {[list |-> Rotate(list, U32Mod(rrCount[h], Len(list))),
           rr |-> rrCount[h],
           prr |-> priorityRR[h]]}

\* an orderedProxies whose priority strategy adds to the counter of every
\* class it meets, also of a class with one alive member
OrderFromEveryClass(h, list) ==
    IF list = <<>>
    THEN {[list |-> <<>>, rr |-> rrCount[h], prr |-> priorityRR[h]]}
    ELSE LET prs == SortDesc({Priority[p] : p \in Range(list)})
         IN {[list |-> PriorityOrder(prs, list, priorityRR[h]),
              rr |-> rrCount[h],
              prr |-> [pr \in DOMAIN priorityRR[h] |->
                         IF Len(Group(list, pr)) > 0
                         THEN U32Inc(priorityRR[h][pr])
                         ELSE priorityRR[h][pr]]]}

\* chain.go 59-96: what orderedProxies returns for hop h once it has filtered
\* the pool down to list, each result with the counters it leaves behind
OrderFrom(h, list) ==
    IF list = <<>>
    THEN {[list |-> <<>>, rr |-> rrCount[h], prr |-> priorityRR[h]]}
    ELSE IF strategy[h] = "random"
    THEN {[list |-> t, rr |-> rrCount[h], prr |-> priorityRR[h]] : t \in Perms(list)}
    ELSE IF strategy[h] = "priority"
    THEN LET prs == SortDesc({Priority[p] : p \in Range(list)})
         IN {[list |-> PriorityOrder(prs, list, priorityRR[h]),
              rr |-> rrCount[h],
              prr |-> [pr \in DOMAIN priorityRR[h] |->
                         IF Len(Group(list, pr)) > 1
                         THEN U32Inc(priorityRR[h][pr])
                         ELSE priorityRR[h][pr]]]}
    ELSE {[list |-> Rotate(list, U32Mod(rrCount[h], Len(list))),
           rr |-> U32Inc(rrCount[h]),
           prr |-> priorityRR[h]]}

\* chain.go 40-97: the results orderedProxies may return for hop h
OrderedProxies(h) == OrderFrom(h, AliveList(h))

\* every hop is asked to CONNECT to the final destination
NextTargetAlwaysFinal(combo, i) == Target

\* chain.go 129-137: the endpoint hop i of the combo is asked to CONNECT to
NextTarget(combo, i) == IF i + 1 <= Len(combo) THEN combo[i + 1] ELSE Target

\* chain.go 167-287: connectProxy through proxy p towards endpoint e can
\* succeed unless one of them is down, and can fail unless both are up
HopCanSucceed(p, e) == net[p] # "down" /\ net[e] # "down"
HopCanFail(p, e) == net[p] # "up" \/ net[e] # "up"

\* chain.go 126-145: the outcomes of connectThrough(combo): 0 for success,
\* else the index of the hop whose connectProxy failed
ConnectThrough(combo) ==
    {i \in 0..Len(combo) :
        /\ \A j \in 1..Len(combo) :
              (i = 0 \/ j < i) => HopCanSucceed(combo[j], NextTarget(combo, j))
        /\ i # 0 => HopCanFail(combo[i], NextTarget(combo, i))}

\* a failure that marks every proxy of the combo dead
MarkDeadWholeCombo(combo, i) ==
    IF i = 0 THEN alive ELSE [p \in DOMAIN alive |-> alive[p] /\ p \notin Range(combo)]

\* chain.go 139: a failure at hop i marks combo[i] dead
MarkDead(combo, i) ==
    IF i = 0 THEN alive ELSE [alive EXCEPT ![combo[i]] = FALSE]

Chain(d) == chains[dial[d].user].chain

\* a loop that, after an error, tries the candidate it has just tried again
UnwindRetry(r, n, j) ==
    IF j = 0 THEN [r EXCEPT !.pc = "done", !.result = "err", !.depth = 0]
    ELSE [r EXCEPT !.depth = j + 1, !.pc = IF j = n THEN "attempt" ELSE "enter"]

\* chain.go 153-164: the recursive call of the loop at depth j has returned
\* an error; the loop goes on to its next candidate, or it is exhausted and
\* the error goes up to depth j - 1, at depth 0 out of dialChain
RECURSIVE Unwind(_, _, _)
Unwind(r, n, j) ==
    IF j = 0 THEN [r EXCEPT !.pc = "done", !.result = "err", !.depth = 0]
    ELSE IF r.idx[j] < Len(r.cand[j])
    THEN [r EXCEPT !.idx[j] = @ + 1,
                   !.current[j] = r.cand[j][r.idx[j] + 1],
                   !.depth = j + 1,
                   !.pc = IF j = n THEN "attempt" ELSE "enter"]
    ELSE Unwind(r, n, j - 1)

\* chain.go 99-103, 114-116: dialChain is called for user u; it reads the cache
DialChainStart(d, u) ==
    /\ dial[d].pc = "idle"
    /\ calls < MaxCalls
    /\ calls' = calls + 1
    /\ LET n == Len(chains[u].chain) IN
       dial' = [dial EXCEPT ![d] =
                  [pc |-> IF cache[u] # NoCache THEN "fast" ELSE "enter",
                   user |-> u,
                   cached |-> cache[u],
                   depth |-> IF cache[u] # NoCache THEN 0 ELSE 1,
                   cand |-> [i \in 1..n |-> <<>>],
                   idx |-> [i \in 1..n |-> 0],
                   current |-> [i \in 1..n |-> ""],
                   result |-> "none",
                   attempts |-> <<>>,
                   alive0 |-> alive,
                   cache0 |-> cache[u],
                   no |-> calls + 1]]
    /\ UNCHANGED <<alive, net, strategy, rrCount, priorityRR, cache, now>>
    /\ UNCHANGED <<chains, refs, sessVars, acceptVars, relayVars, ctlVars, tunVars, extVars>>

\* chain.go 104, 126-145: the fast path tries the cached combo
FastAttempt(d) ==
    /\ dial[d].pc = "fast"
    /\ \E i \in ConnectThrough(dial[d].cached.combo) :
        /\ alive' = MarkDead(dial[d].cached.combo, i)
        /\ dial' = [dial EXCEPT
              ![d].attempts = Append(@, [combo |-> dial[d].cached.combo,
                                         ok |-> i = 0, fast |-> TRUE]),
              ![d].pc = IF i = 0 THEN "touch" ELSE "invalidate"]
    /\ UNCHANGED <<net, strategy, rrCount, priorityRR, cache, now, calls>>
    /\ UNCHANGED <<chains, refs, sessVars, acceptVars, relayVars, ctlVars, tunVars, extVars>>

\* chain.go 105-108: the cached entry that was tried gets lastUsed = now
FastTouch(d) ==
    /\ dial[d].pc = "touch"
    /\ cache' = [cache EXCEPT ![dial[d].user] =
                    IF @.id = dial[d].cached.id THEN [@ EXCEPT !.lastUsed = now]
                    ELSE @]
    /\ dial' = [dial EXCEPT ![d].pc = "done", ![d].result = "ok"]
    /\ UNCHANGED <<alive, net, strategy, rrCount, priorityRR, now, calls>>
    /\ UNCHANGED <<chains, refs, sessVars, acceptVars, relayVars, ctlVars, tunVars, extVars>>

\* a failed fast path that leaves the cache slot as it is
FastInvalidateKeepsCache(d) ==
    /\ dial[d].pc = "invalidate"
    /\ dial' = [dial EXCEPT ![d].pc = "enter", ![d].depth = 1]
    /\ UNCHANGED <<alive, net, strategy, rrCount, priorityRR, cache, now, calls>>
    /\ UNCHANGED <<chains, refs, sessVars, acceptVars, relayVars, ctlVars, tunVars, extVars>>

\* chain.go 110-116: the fast path failed; the cache slot is emptied and the
\* slow path begins
FastInvalidate(d) ==
    /\ dial[d].pc = "invalidate"
    /\ cache' = [cache EXCEPT ![dial[d].user] = NoCache]
    /\ dial' = [dial EXCEPT ![d].pc = "enter", ![d].depth = 1]
    /\ UNCHANGED <<alive, net, strategy, rrCount, priorityRR, now, calls>>
    /\ UNCHANGED <<chains, refs, sessVars, acceptVars, relayVars, ctlVars, tunVars, extVars>>

\* chain.go 148-155, 161-164: dialChainRecursive at a depth below the chain's
\* length asks the selector for the candidates of the hop and takes the first
Enter(d) ==
    /\ dial[d].pc = "enter"
    /\ LET r == dial[d]
           n == Len(Chain(d))
           k == r.depth
           h == Chain(d)[k]
       IN \E o \in OrderedProxies(h) :
            /\ rrCount' = [rrCount EXCEPT ![h] = o.rr]
            /\ priorityRR' = [priorityRR EXCEPT ![h] = o.prr]
            /\ dial' = [dial EXCEPT ![d] =
                  IF o.list = <<>> THEN Unwind(r, n, k - 1)
                  ELSE [r EXCEPT !.cand[k] = o.list,
                                 !.idx[k] = 1,
                                 !.current[k] = o.list[1],
                                 !.depth = k + 1,
                                 !.pc = IF k = n THEN "attempt" ELSE "enter"]]
    /\ UNCHANGED <<alive, net, strategy, cache, now, calls>>
    /\ UNCHANGED <<chains, refs, sessVars, acceptVars, relayVars, ctlVars, tunVars, extVars>>

\* chain.go 148-150, 156-160: at the chain's length connectThrough(current) is
\* tried; its success ends the search, its failure moves on to the next candidate
Attempt(d) ==
    /\ dial[d].pc = "attempt"
    /\ LET r == dial[d]
           n == Len(Chain(d))
       IN \E i \in ConnectThrough(r.current) :
            /\ alive' = MarkDead(r.current, i)
            /\ LET r2 == [r EXCEPT !.attempts =
                            Append(@, [combo |-> r.current, ok |-> i = 0,
                                       fast |-> FALSE])]
               IN dial' = [dial EXCEPT ![d] =
                      IF i = 0 THEN [r2 EXCEPT !.pc = "store"]
                      ELSE Unwind(r2, n, n)]
    /\ UNCHANGED <<net, strategy, rrCount, priorityRR, cache, now, calls>>
    /\ UNCHANGED <<chains, refs, sessVars, acceptVars, relayVars, ctlVars, tunVars, extVars>>

\* a cache kept per chain structure: the combo goes to every ChainState whose
\* chain is the chain of the caller's
StoreByChain(d) ==
    /\ dial[d].pc = "store"
    /\ cache' = [u \in DOMAIN cache |->
                    IF chains[u].chain = chains[dial[d].user].chain
                    THEN [id |-> dial[d].no, combo |-> dial[d].current, lastUsed |-> now]
                    ELSE cache[u]]
    /\ dial' = [dial EXCEPT ![d].pc = "done", ![d].result = "ok"]
    /\ UNCHANGED <<alive, net, strategy, rrCount, priorityRR, now, calls>>
    /\ UNCHANGED <<chains, refs, sessVars, acceptVars, relayVars, ctlVars, tunVars, extVars>>

\* chain.go 117-123: a copy of current becomes the cache of the ChainState
Store(d) ==
    /\ dial[d].pc = "store"
    /\ cache' = [cache EXCEPT ![dial[d].user] =
                    [id |-> dial[d].no, combo |-> dial[d].current, lastUsed |-> now]]
    /\ dial' = [dial EXCEPT ![d].pc = "done", ![d].result = "ok"]
    /\ UNCHANGED <<alive, net, strategy, rrCount, priorityRR, now, calls>>
    /\ UNCHANGED <<chains, refs, sessVars, acceptVars, relayVars, ctlVars, tunVars, extVars>>

\* chain.go 108, 123: dialChain has returned to its caller
DialChainReturn(d) ==
    /\ dial[d].pc = "done"
    /\ dial' = [dial EXCEPT ![d] = IdleDial]
    /\ UNCHANGED <<alive, net, strategy, rrCount, priorityRR, cache, now, calls>>
    /\ UNCHANGED <<chains, refs, sessVars, acceptVars, relayVars, ctlVars, tunVars, extVars>>

\* time passes
Tick ==
    /\ now < MaxTime
    /\ now' = now + 1
    /\ UNCHANGED <<alive, net, strategy, rrCount, priorityRR, cache, dial, calls>>
    /\ UNCHANGED <<chains, refs, sessVars, acceptVars, relayVars, ctlVars, tunVars, extVars>>

\* the chain dialer of a server in service: any liveness flags (the prober
\* and earlier dials have set them), any network, no cache yet
InitChain ==
    /\ chains \in ChainTables
    /\ refs = [u \in DOMAIN chains |-> 0]
    /\ SessionStart
    /\ AcceptStart(0)
    /\ RelayStartState
    /\ alive \in [Proxies -> BOOLEAN]
    /\ net \in [Proxies \cup {Target} -> {"up", "down", "flaky"}]
    /\ strategy \in StrategyChoices
    /\ rrCount = [h \in Hops |-> 0]
    /\ priorityRR = [h \in Hops |-> [pr \in {Priority[p] : p \in Proxies} |-> 0]]
    /\ cache = [u \in DOMAIN chains |-> NoCache]
    /\ now = 0
    /\ dial = [d \in AllCallers |-> IdleDial]
    /\ calls = 0
    /\ ControlStart(FileOne)
    /\ TunnelQuiet
    /\ ExtQuiet

\* one caller at a time
NextChain ==
    \/ \E u \in DOMAIN chains : DialChainStart("d1", u)
    \/ FastAttempt("d1")
    \/ FastTouch("d1")
    \/ FastInvalidate("d1")
    \/ Enter("d1")
    \/ Attempt("d1")
    \/ Store("d1")
    \/ DialChainReturn("d1")
    \/ Tick

SpecChain == InitChain /\ [][NextChain]_vars

\* a step of the dialChain call of caller d
DialStep(d) ==
    \/ FastAttempt(d)
    \/ FastTouch(d)
    \/ FastInvalidate(d)
    \/ Enter(d)
    \/ Attempt(d)
    \/ Store(d)

\* the goroutine in dialChain keeps running: every connectProxy call returns
\* (chain.go 171-177, 195-253: each dial, write and read carries a deadline)
FairSpecChain == SpecChain /\ WF_vars(DialStep("d1"))

(***************************************************************************)
(* Properties of the chain dialer (SpecChain).                             *)
(***************************************************************************)
\* the combinations of one proxy per hop of chain ch
Combos(ch) ==
    {c \in [1..Len(ch) -> Proxies] :
        \A i \in 1..Len(ch) : c[i] \in Range(HopProxies[ch[i]])}

C40_Bounded ==
    LET r == dial["d1"]
        att == r.attempts
    IN  r.pc # "idle" =>
            /\ \A i \in DOMAIN att : att[i].fast => i = 1 /\ r.cache0 # NoCache
            /\ \A i \in DOMAIN att : ~att[i].fast => att[i].combo \in Combos(Chain("d1"))
            /\ \A i, j \in DOMAIN att : i # j => att[i].combo # att[j].combo
            /\ Len(att) <= Cardinality(Combos(Chain("d1"))) + 1

C22_StoredComboAlive ==
    LET r == dial["d1"] IN
    r.pc = "store" =>
        /\ Len(r.current) = Len(Chain("d1"))
        /\ \A i \in 1..Len(r.current) :
              /\ r.current[i] \in Range(HopProxies[Chain("d1")[i]])
              /\ alive[r.current[i]]

\* the call started with a cache entry
FastCall(r) == r.pc # "idle" /\ r.cache0 # NoCache

\* what holds of a call that found a cache entry, at each of its positions
FastPathOrder ==
    LET r == dial["d1"]
        u == r.user
    IN  FastCall(r) =>
            /\ r.pc = "fast" => r.attempts = <<>> /\ \A i \in DOMAIN r.cand : r.cand[i] = <<>>
            /\ r.attempts # <<>> =>
                  /\ r.attempts[1].fast
                  /\ r.attempts[1].combo = r.cache0.combo
            /\ r.pc \in {"enter", "attempt"} /\ Len(r.attempts) = 1 =>
                  /\ ~r.attempts[1].ok
                  /\ cache[u] = NoCache
            /\ (r.pc = "done" /\ r.attempts[1].ok) =>
                  /\ r.result = "ok"
                  /\ Len(r.attempts) = 1
                  /\ cache[u].combo = r.cache0.combo

\* C23: a dialChain call that finds a cache entry tries the cached combination
\* before any selector call; when that attempt succeeds the call returns with
\* it, no round-robin counter has moved, the cached combination is the same and
\* its lastUsed is the current time; when it fails the cache slot is empty
\* before the slow path starts.
C23_FastPath ==
    /\ []FastPathOrder
    /\ [][(dial["d1"].pc \in {"fast", "touch"} /\ dial'["d1"].pc # "invalidate") =>
              /\ rrCount' = rrCount
              /\ priorityRR' = priorityRR
              /\ cache'[dial["d1"].user].combo = cache[dial["d1"].user].combo]_vars
    /\ [][(dial["d1"].pc = "touch" /\ dial'["d1"].pc = "done") =>
              cache'[dial["d1"].user] = [dial["d1"].cache0 EXCEPT !.lastUsed = now]]_vars
    /\ [][(dial["d1"].pc = "invalidate" /\ dial'["d1"].pc # "invalidate") =>
              /\ cache'[dial["d1"].user] = NoCache
              /\ dial'["d1"].pc = "enter"
              /\ rrCount' = rrCount
              /\ priorityRR' = priorityRR]_vars

\* C23 witness: the second call has returned through the fast path at time 1
\* with the combination the first call stored at time 0
C23_Witness ==
    LET r == dial["d1"] IN
    /\ r.pc = "done"
    /\ r.cache0 # NoCache
    /\ r.cache0.lastUsed = 0
    /\ r.result = "ok"
    /\ Len(r.attempts) = 1
    /\ now = 1
    /\ cache[r.user].lastUsed = 1
    /\ Len(cache[r.user].combo) = 2

\* C24: a dialChain call that started with an empty cache returns an error
\* only if some hop had no proxy alive at the start, or connectThrough has been
\* tried and has failed for every combination of proxies alive at the start.
C24_SlowPathExhaustive ==
    LET r == dial["d1"] IN
    (r.pc = "done" /\ r.cache0 = NoCache /\ r.result = "err") =>
        LET ch == chains[r.user].chain IN
        \/ \E i \in 1..Len(ch) : \A p \in Range(HopProxies[ch[i]]) : ~r.alive0[p]
        \/ \A c \in Combos(ch) :
              (\A i \in 1..Len(ch) : r.alive0[c[i]]) =>
                  \E k \in DOMAIN r.attempts :
                      r.attempts[k].combo = c /\ ~r.attempts[k].ok

\* C27: dialChain starts connectThrough only on a combination whose first
\* proxy, the one it is certain to contact, has its alive flag set: the
\* cached combination on the fast path, the current one on the slow path.
C27_NoDeadProxyDialed ==
    LET r == dial["d1"] IN
    /\ r.pc = "fast" => alive[r.cached.combo[1]]
    /\ r.pc = "attempt" => alive[r.current[1]]

(***************************************************************************)
(* The accept loop of main and its semaphore.                              *)
(***************************************************************************)
\* an accept that starts a session whatever the semaphore holds
AcceptNoLimit(c) ==
    /\ apc = "accept"
    /\ lnOpen
    /\ status[c] = "pending"
    /\ load' = [load EXCEPT ![c] = sem]
    /\ sem' = sem + 1
    /\ wg' = wg + 1
    /\ status' = [status EXCEPT ![c] = "running"]
    /\ UNCHANGED <<maxConns, ctxDone, lnOpen, doneClosed, acceptErrs, apc>>
    /\ UNCHANGED <<chains, refs, sessVars, chainVars, relayVars, ctlVars, tunVars, extVars>>

\* part_002 83, 93-112: Accept returns connection c; the select takes a slot
\* and starts the session, or finds the channel full and closes c
Accept(c) ==
    /\ apc = "accept"
    /\ lnOpen
    /\ status[c] = "pending"
    /\ load' = [load EXCEPT ![c] = sem]
    /\ IF sem < maxConns
       THEN /\ sem' = sem + 1
            /\ wg' = wg + 1
            /\ status' = [status EXCEPT ![c] = "running"]
       ELSE /\ status' = [status EXCEPT ![c] = "refused"]
            /\ UNCHANGED <<sem, wg>>
    /\ UNCHANGED <<maxConns, ctxDone, lnOpen, doneClosed, acceptErrs, apc>>
    /\ UNCHANGED <<chains, refs, sessVars, chainVars, relayVars, ctlVars, tunVars, extVars>>

\* part_002 83-89: Accept fails on the closed listener; the break of the
\* ctx.Done() case leaves the select only, so both cases go on to line 90
AcceptError ==
    /\ apc = "accept"
    /\ ~lnOpen
    /\ apc' = "warn"
    /\ UNCHANGED <<maxConns, sem, status, wg, ctxDone, lnOpen, doneClosed, acceptErrs,
                   load>>
    /\ UNCHANGED <<chains, refs, sessVars, chainVars, relayVars, ctlVars, tunVars, extVars>>

\* part_002 90-91: the error is logged and continue starts the next iteration
LoopContinue ==
    /\ apc = "warn"
    /\ apc' = "accept"
    /\ acceptErrs' = TRUE
    /\ UNCHANGED <<maxConns, sem, status, wg, ctxDone, lnOpen, doneClosed, load>>
    /\ UNCHANGED <<chains, refs, sessVars, chainVars, relayVars, ctlVars, tunVars, extVars>>

\* part_002 107: handleConn returns
SessionReturn(c) ==
    /\ status[c] = "running"
    /\ status' = [status EXCEPT ![c] = "returned"]
    /\ UNCHANGED <<maxConns, sem, wg, ctxDone, lnOpen, doneClosed, acceptErrs, load, apc>>
    /\ UNCHANGED <<chains, refs, sessVars, chainVars, relayVars, ctlVars, tunVars, extVars>>

\* part_002 105-106: the deferred calls of the session goroutine: wg.Done(),
\* then the slot goes back
SessionExit(c) ==
    /\ status[c] = "returned"
    /\ wg' = wg - 1
    /\ sem' = sem - 1
    /\ status' = [status EXCEPT ![c] = "finished"]
    /\ UNCHANGED <<maxConns, ctxDone, lnOpen, doneClosed, acceptErrs, load, apc>>
    /\ UNCHANGED <<chains, refs, sessVars, chainVars, relayVars, ctlVars, tunVars, extVars>>

\* part_002 61-66: the signal arrives: cancel(), ln.Close()
Signal ==
    /\ ~ctxDone
    /\ ctxDone' = TRUE
    /\ lnOpen' = FALSE
    /\ UNCHANGED <<maxConns, sem, status, wg, doneClosed, acceptErrs, load, apc>>
    /\ UNCHANGED <<chains, refs, sessVars, chainVars, relayVars, ctlVars, tunVars, extVars>>

\* part_002 67-68: wg.Wait() returns and done is closed
ShutdownDone ==
    /\ ctxDone
    /\ ~doneClosed
    /\ wg = 0
    /\ doneClosed' = TRUE
    /\ UNCHANGED <<maxConns, sem, status, wg, ctxDone, lnOpen, acceptErrs, load, apc>>
    /\ UNCHANGED <<chains, refs, sessVars, chainVars, relayVars, ctlVars, tunVars, extVars>>

InitAccept ==
    /\ chains \in Tables
    /\ SessionStart
    /\ ChainQuiet
    /\ RelayStartState
    /\ \E n \in 0..MaxCap : AcceptStart(n)
    /\ ControlStart(FileOne)
    /\ TunnelQuiet
    /\ ExtQuiet

NextAccept ==
    \/ \E c \in Conns : Accept(c)
    \/ AcceptError
    \/ LoopContinue
    \/ \E c \in Conns : SessionReturn(c)
    \/ \E c \in Conns : SessionExit(c)
    \/ Signal
    \/ ShutdownDone

SpecAccept == InitAccept /\ [][NextAccept]_vars

\* the Go scheduler runs main and every goroutine that can take a step, and
\* every session comes to its end
FairSpecAccept ==
    /\ SpecAccept
    /\ WF_vars(AcceptError)
    /\ WF_vars(LoopContinue)
    /\ \A c \in Conns : WF_vars(SessionReturn(c)) /\ WF_vars(SessionExit(c))
    /\ WF_vars(ShutdownDone)

\* the sessions that are inside handleConn, and those that hold a slot
Running == {c \in Conns : status[c] = "running"}
Holding == {c \in Conns : status[c] \in {"running", "returned"}}

\* C9: at most max_connections sessions run handleConn at any moment; a
\* connection accepted while max_connections slots are taken is closed at
\* once and gets no session, every other accepted connection gets one; the
\* accept loop can always take the next connection, whatever the semaphore
\* holds; every session holds exactly one slot until it has ended and none
\* afterwards.
C9_Admission ==
    /\ Cardinality(Running) <= maxConns
    /\ sem = Cardinality(Holding)
    /\ sem <= maxConns
    /\ \A c \in Conns :
          /\ status[c] = "refused" => load[c] = maxConns
          /\ status[c] \in {"running", "returned", "finished"} =>
                (load[c] >= 0 /\ load[c] < maxConns)
          /\ (status[c] = "pending" /\ lnOpen) => ENABLED Accept(c)

\* C9 witness: a connection has been turned away while max_connections (at
\* least one) sessions were running, and one of them has ended since
C9_Witness ==
    /\ maxConns >= 1
    /\ \E c, e \in Conns :
          /\ status[c] = "refused"
          /\ status[e] = "finished"
    /\ sem = maxConns - 1

(***************************************************************************)
(* The relay, proxy(a, b) (proxy.go 41-93).                                *)
(***************************************************************************)
\* a Close that leaves the connection open
CloseNothing(cl, c) == cl

\* proxy.go 85-86: Close of connection c; closing a closed connection changes nothing
Close(cl, c) == [cl EXCEPT ![c] = TRUE]

\* a refresh that moves the deadline of every connection
RefreshAll(dl, c) == [x \in Sides |-> IdleTimeout]

\* proxy.go 49-50, 65-66: Set{Read,Write}Deadline(time.Now().Add(idleTimeout))
\* on connection c
Refresh(dl, c) == [dl EXCEPT ![c] = IdleTimeout]

\* proxy.go 45-50, 89-90: the goroutine starts and sets its first deadlines
CopyStart(t) ==
    /\ rpc[t] = "start"
    /\ rpc' = [rpc EXCEPT ![t] = "read"]
    /\ wdl' = Refresh(wdl, Dst(t))
    /\ rdl' = Refresh(rdl, Src(t))
    /\ idle' = [idle EXCEPT ![t] = 0]
    /\ UNCHANGED <<closed, peer, avail, relayWg, returned, relayLog, moved>>
    /\ UNCHANGED <<chains, refs, sessVars, chainVars, acceptVars, ctlVars, tunVars, extVars>>

\* proxy.go 51, 68-83: src.Read returns: the connection is closed, its read
\* deadline has passed, bytes have arrived, or the far end has closed or
\* reset it; otherwise the Read waits
CopyRead(t) ==
    /\ rpc[t] = "read"
    /\ LET c == Src(t) IN
       IF closed[c]
       THEN /\ rpc' = [rpc EXCEPT ![t] = "exit"]
            /\ relayLog' = relayLog \cup {"debug: closed"}
            /\ avail' = avail
       ELSE IF rdl[c] = 0
       THEN /\ rpc' = [rpc EXCEPT ![t] = "exit"]
            /\ relayLog' = relayLog \cup {"warn: idle timeout"}
            /\ avail' = avail
       ELSE IF avail[c]
       THEN /\ rpc' = [rpc EXCEPT ![t] = "write"]
            /\ avail' = [avail EXCEPT ![c] = FALSE]
            /\ relayLog' = relayLog
       ELSE IF peer[c] = "eof"
       THEN /\ rpc' = [rpc EXCEPT ![t] = "exit"]
            /\ relayLog' = relayLog \cup {"debug: EOF"}
            /\ avail' = avail
       ELSE /\ peer[c] = "reset"
            /\ rpc' = [rpc EXCEPT ![t] = "exit"]
            /\ relayLog' = relayLog \cup {"warn: error"}
            /\ avail' = avail
    /\ UNCHANGED <<closed, peer, relayWg, returned, relayTime>>
    /\ UNCHANGED <<chains, refs, sessVars, chainVars, acceptVars, ctlVars, tunVars, extVars>>

\* proxy.go 52-67: dst.Write returns: the connection is closed, its write
\* deadline has passed, the far end has reset it, or the bytes are sent, the
\* deadlines of this direction are set again and the loop goes on; a Write
\* the far end does not take waits
CopyWrite(t) ==
    /\ rpc[t] = "write"
    /\ LET c == Dst(t) IN
       IF closed[c]
       THEN /\ rpc' = [rpc EXCEPT ![t] = "exit"]
            /\ relayLog' = relayLog
            /\ UNCHANGED relayTime
       ELSE IF wdl[c] = 0
       THEN /\ rpc' = [rpc EXCEPT ![t] = "exit"]
            /\ relayLog' = relayLog \cup {"warn: idle timeout"}
            /\ UNCHANGED relayTime
       ELSE IF peer[c] = "reset"
       THEN /\ rpc' = [rpc EXCEPT ![t] = "exit"]
            /\ relayLog' = relayLog \cup {"warn: error"}
            /\ UNCHANGED relayTime
       ELSE /\ rpc' = [rpc EXCEPT ![t] = "read"]
            /\ relayLog' = relayLog
            /\ rdl' = Refresh(rdl, Src(t))
            /\ wdl' = Refresh(wdl, c)
            /\ idle' = [idle EXCEPT ![t] = 0]
            /\ moved' = [moved EXCEPT ![t] = TRUE]
    /\ UNCHANGED <<closed, peer, avail, relayWg, returned>>
    /\ UNCHANGED <<chains, refs, sessVars, chainVars, acceptVars, ctlVars, tunVars, extVars>>

\* a step of time t is reading or writing in
Waits(t) ==
    \/ rpc[t] = "read" /\ ~closed[Src(t)] /\ rdl[Src(t)] > 0
    \/ rpc[t] = "write" /\ ~closed[Dst(t)] /\ wdl[Dst(t)] > 0

\* a clock under which no read deadline ever passes
RelayTickNoReadDeadline ==
    /\ \E t \in Tasks : Waits(t)
    /\ wdl' = [c \in Sides |-> IF wdl[c] > 0 THEN wdl[c] - 1 ELSE 0]
    /\ idle' = [t \in Tasks |-> IF idle[t] < IdleTimeout THEN idle[t] + 1 ELSE idle[t]]
    /\ UNCHANGED <<rpc, closed, peer, avail, relayWg, returned, relayLog, moved, rdl>>
    /\ UNCHANGED <<chains, refs, sessVars, chainVars, acceptVars, ctlVars, tunVars, extVars>>

\* one tick of the relay's clock passes while a Read or Write is under way
RelayTick ==
    /\ \E t \in Tasks : Waits(t)
    /\ rdl' = [c \in Sides |-> IF rdl[c] > 0 THEN rdl[c] - 1 ELSE 0]
    /\ wdl' = [c \in Sides |-> IF wdl[c] > 0 THEN wdl[c] - 1 ELSE 0]
    /\ idle' = [t \in Tasks |-> IF idle[t] < IdleTimeout THEN idle[t] + 1 ELSE idle[t]]
    /\ UNCHANGED <<rpc, closed, peer, avail, relayWg, returned, relayLog, moved>>
    /\ UNCHANGED <<chains, refs, sessVars, chainVars, acceptVars, ctlVars, tunVars, extVars>>

\* proxy.go 85: dst.Close()
CopyCloseDst(t) ==
    /\ rpc[t] = "exit"
    /\ closed' = Close(closed, Dst(t))
    /\ rpc' = [rpc EXCEPT ![t] = "exit2"]
    /\ UNCHANGED <<peer, avail, relayWg, returned, relayLog, relayTime>>
    /\ UNCHANGED <<chains, refs, sessVars, chainVars, acceptVars, ctlVars, tunVars, extVars>>

\* proxy.go 86, 46: src.Close(), then the deferred wg.Done()
CopyCloseSrc(t) ==
    /\ rpc[t] = "exit2"
    /\ closed' = Close(closed, Src(t))
    /\ relayWg' = relayWg - 1
    /\ rpc' = [rpc EXCEPT ![t] = "done"]
    /\ UNCHANGED <<peer, avail, returned, relayLog, relayTime>>
    /\ UNCHANGED <<chains, refs, sessVars, chainVars, acceptVars, ctlVars, tunVars, extVars>>

\* proxy.go 92-93: wg.Wait() returns and proxy with it
ProxyReturn ==
    /\ ~returned
    /\ relayWg = 0
    /\ returned' = TRUE
    /\ UNCHANGED <<rpc, closed, peer, avail, relayWg, relayLog, relayTime>>
    /\ UNCHANGED <<chains, refs, sessVars, chainVars, acceptVars, ctlVars, tunVars, extVars>>

\* the far end of side c sends bytes
PeerSend(c) ==
    /\ peer[c] = "open"
    /\ ~closed[c]
    /\ ~avail[c]
    /\ avail' = [avail EXCEPT ![c] = TRUE]
    /\ UNCHANGED <<rpc, closed, peer, relayWg, returned, relayLog, relayTime>>
    /\ UNCHANGED <<chains, refs, sessVars, chainVars, acceptVars, ctlVars, tunVars, extVars>>

\* the far end of side c closes its connection (EOF) or resets it
PeerEnd(c) ==
    /\ peer[c] = "open"
    /\ \E e \in {"eof", "reset"} : peer' = [peer EXCEPT ![c] = e]
    /\ UNCHANGED <<rpc, closed, avail, relayWg, returned, relayLog, relayTime>>
    /\ UNCHANGED <<chains, refs, sessVars, chainVars, acceptVars, ctlVars, tunVars, extVars>>

InitRelay ==
    /\ chains = NoTable
    /\ SessionStart
    /\ ChainQuiet
    /\ AcceptStart(0)
    /\ RelayStartState
    /\ ControlStart(FileOne)
    /\ TunnelQuiet
    /\ ExtQuiet

\* a step of copy goroutine t
CopyStep(t) ==
    \/ CopyStart(t)
    \/ CopyRead(t)
    \/ CopyWrite(t)
    \/ CopyCloseDst(t)
    \/ CopyCloseSrc(t)

NextRelay ==
    \/ \E t \in Tasks : CopyStep(t)
    \/ ProxyReturn
    \/ \E c \in Sides : PeerSend(c)
    \/ \E c \in Sides : PeerEnd(c)
    \/ RelayTick

SpecRelay == InitRelay /\ [][NextRelay]_vars

\* the Go scheduler runs every goroutine that can take a step; time passes
\* while a Read or Write waits, and it returns at its deadline or when its
\* connection is closed
FairSpecRelay ==
    /\ SpecRelay
    /\ \A t \in Tasks : WF_vars(CopyStep(t))
    /\ WF_vars(ProxyReturn)
    /\ WF_vars(RelayTick)

\* a copy goroutine has left its loop: it saw EOF, a closed connection, an
\* error or a timeout
LeftLoop(t) == rpc[t] \in {"exit", "exit2", "done"}

\* C10: once one copy direction has seen EOF, a closed connection or an error
\* (a timeout included), both copy goroutines finish and proxy returns; proxy
\* returns only after both have finished, and then a and b are both closed.
C10_Teardown ==
    /\ [](returned =>
            /\ \A t \in Tasks : rpc[t] = "done"
            /\ closed["a"] /\ closed["b"])
    /\ (\/ \E c \in Sides : peer[c] # "open" \/ closed[c]
        \/ \E t \in Tasks : LeftLoop(t)) ~>
            (returned /\ \A t \in Tasks : rpc[t] = "done")

\* C10 witness: the client side b reached EOF and proxy has returned with
\* both connections closed
C10_Witness ==
    /\ returned
    /\ peer["b"] = "eof"
    /\ peer["a"] = "open"
    /\ closed["a"] /\ closed["b"]
    /\ "debug: EOF" \in relayLog

\* copy goroutine t is in its loop and has transferred nothing for idle_timeout
IdleFor(t) == rpc[t] \in {"read", "write"} /\ idle[t] = IdleTimeout

\* C11: if, with the relay started, neither direction has transferred a byte
\* for idle_timeout, then both connections are closed, an "idle timeout"
\* warning is logged and proxy returns; the warning is logged only by a
\* direction that has been idle for idle_timeout.
C11_IdleTimeout ==
    /\ []("warn: idle timeout" \in relayLog =>
             \E t \in Tasks : LeftLoop(t) /\ idle[t] = IdleTimeout)
    /\ ((\A t \in Tasks : rpc[t] = "read" /\ idle[t] = IdleTimeout)
         /\ \A c \in Sides : ~closed[c])
        ~> (/\ returned
            /\ closed["a"] /\ closed["b"]
            /\ "warn: idle timeout" \in relayLog)

\* C11 witness: both far ends stayed open and silent, no byte was ever
\* transferred, and proxy has returned after logging the idle timeout
C11_Witness ==
    /\ returned
    /\ closed["a"] /\ closed["b"]
    /\ \A c \in Sides : peer[c] = "open" /\ ~avail[c]
    /\ \A t \in Tasks : ~moved[t]
    /\ "warn: idle timeout" \in relayLog

\* the other copy goroutine
Other(t) == CHOOSE u \in Tasks : u # t

\* C12: a transfer of one direction leaves the read and write deadlines of
\* the other direction as they are, and a direction that has transferred
\* nothing for idle_timeout brings the whole relay down (both connections
\* closed, proxy returned) whatever the other direction transfers meanwhile.
C12_PerDirection ==
    /\ [][\A t \in Tasks :
            (rpc[t] = "write" /\ rpc'[t] = "read") =>
                /\ rdl'[Src(Other(t))] = rdl[Src(Other(t))]
                /\ wdl'[Dst(Other(t))] = wdl[Dst(Other(t))]]_vars
    /\ (\E t \in Tasks : IdleFor(t))
        ~> (returned /\ closed["a"] /\ closed["b"])

\* C12 witness: direction a->b never transferred and timed out while
\* direction b->a had transferred within the timeout; proxy has returned
C12_Witness ==
    /\ returned
    /\ closed["a"] /\ closed["b"]
    /\ ~moved["ab"] /\ idle["ab"] = IdleTimeout
    /\ moved["ba"] /\ idle["ba"] < IdleTimeout
    /\ relayLog = {"warn: idle timeout", "debug: closed"}


\* a sequence without a repeated element
NoDuplicates(q) == \A i, j \in DOMAIN q : q[i] = q[j] => i = j

\* C18: under every strategy, whatever the counters and alive flags are,
\* every sequence orderedProxies can return for a hop has no duplicates and
\* holds exactly the proxies of the hop whose alive flag is set: no dead
\* proxy, every live one, and it is empty exactly when none is alive.
C18_SelectorLiveSet ==
    \A h \in Hops : \A o \in OrderedProxies(h) :
        LET live == {p \in Range(HopProxies[h]) : alive[p]} IN
        /\ NoDuplicates(o.list)
        /\ Range(o.list) = live
        /\ (o.list = <<>>) <=> (live = {})

\* C18 witness: a call on the chain <<h2>> under the priority strategy with A
\* dead and B alive has taken <<B>> from orderedProxies
C18_Witness ==
    /\ dial["d1"].pc \in {"attempt", "store", "done"}
    /\ Chain("d1") = <<"h2">>
    /\ strategy["h2"] = "priority"
    /\ ~dial["d1"].alive0["A"] /\ dial["d1"].alive0["B"]
    /\ dial["d1"].cand[1] = <<"B">>


(***************************************************************************)
(* The control plane: hot reload (reload.go), health checks (health.go)    *)
(* and a session that dials through the published table.                  *)
(***************************************************************************)
\* the configuration entry ChainState object o was built from
Entry(o) == loaded[o[1]][o[2]]
\* the Proxy objects of the hop of ChainState object o
ProxiesOf(o) == {<<o[1], o[2], n>> : n \in Range(HopNames(Entry(o).Chain))}
\* the Proxy objects of the g-th configuration
ProxiesOfGen(g) ==
    UNION {ProxiesOf(<<g, i>>) : i \in DOMAIN loaded[g]}

\* a duplicate check that lets every list through
HasDuplicateNever(entries) == FALSE

\* part_002 21-24: two entries of the list carry the same user name
HasDuplicate(entries) ==
    \E i, j \in DOMAIN entries : i # j /\ entries[i].Username = entries[j].Username

\* reload.go 46: reflect.DeepEqual(old.chain, st.chain) /\ old.password ==
\* st.password, for the old object o and the new object n built from entry e.
\* DeepEqual follows the Hop and Proxy pointers and compares every field, the
\* configured ones and rrCount and alive with them.
SameChainState(o, n, e) ==
    /\ Entry(o).Chain = e.Chain
    /\ hopRR[o] = hopRR[n]
    /\ \A name \in Range(HopNames(e.Chain)) :
          palive[<<o[1], o[2], name>>] = palive[<<n[1], n[2], name>>]
    /\ Entry(o).Password = e.Password

\* reload.go 30-64: one reload tick that finds file f
Reload(f) ==
    /\ reloads < MaxReloads
    /\ reloads' = reloads + 1
    /\ IF ~f.valid \/ HasDuplicate(f.chains)
       THEN /\ UNCHANGED <<loaded, userChains, cfgChains, retiring>>
            /\ lastReload' = [seen |-> TRUE, file |-> f, failed |-> TRUE,
                              entries |-> [u \in DOMAIN userChains |-> Entry(userChains[u])],
                              table |-> userChains, tableAfter |-> userChains,
                              scheduled |-> {}]
       ELSE LET g == Len(loaded) + 1
                newChains == BuildUserChains(g, f.chains)
                updated == [u \in DOMAIN newChains |->
                              IF /\ u \in DOMAIN userChains
                                 /\ SameChainState(userChains[u], newChains[u],
                                                   f.chains[newChains[u][2]])
                              THEN userChains[u] ELSE newChains[u]]
                displaced == {userChains[u] : u \in
                                {v \in DOMAIN userChains :
                                    v \notin DOMAIN updated \/ updated[v] # userChains[v]}}
            IN  /\ loaded' = Append(loaded, f.chains)
                /\ userChains' = updated
                /\ cfgChains' = g
                /\ retiring' = retiring \cup displaced
                /\ lastReload' = [seen |-> TRUE, file |-> f, failed |-> FALSE,
                                  entries |-> [u \in DOMAIN userChains |->
                                                  Entry(userChains[u])],
                                  table |-> userChains, tableAfter |-> updated,
                                  scheduled |-> displaced]
    /\ UNCHANGED <<palive, hopRR, csCache, csRefs, hticks, probing, collected,
                   markedSince, streak, sess, dials>>
    /\ UNCHANGED expVars
    /\ UNCHANGED <<chains, refs, sessVars, chainVars, acceptVars, relayVars, tunVars, extVars>>

\* reload.go 69-85: the cleanupChain goroutine of object o finds refs <= 0
\* and clears the cache
CleanupChain(o) ==
    /\ o \in retiring
    /\ csRefs[o] <= 0
    /\ csCache' = [csCache EXCEPT ![o] = <<>>]
    /\ retiring' = retiring \ {o}
    /\ UNCHANGED <<loaded, userChains, cfgChains, palive, hopRR, csRefs, reloads,
                   lastReload, hticks, probing, collected, markedSince, streak, sess,
                   dials>>
    /\ UNCHANGED expVars
    /\ UNCHANGED <<chains, refs, sessVars, chainVars, acceptVars, relayVars, tunVars, extVars>>

\* health.go 30-39: a health tick collects the proxies of cfg.Chains and
\* starts one probe goroutine for each; the previous tick has ended (66)
HealthCollect ==
    /\ DOMAIN probing = {}
    /\ hticks < MaxHealthTicks
    /\ hticks' = hticks + 1
    /\ probing' = [p \in ProxiesOfGen(cfgChains) |-> "todo"]
    /\ collected' = [seen |-> TRUE,
                     proxies |-> ProxiesOfGen(cfgChains),
                     published |-> UNION {ProxiesOf(userChains[u]) : u \in DOMAIN userChains}]
    /\ UNCHANGED <<loaded, userChains, cfgChains, palive, hopRR, csCache, csRefs,
                   retiring, reloads, lastReload, markedSince, streak, sess, dials>>
    /\ UNCHANGED expVars
    /\ UNCHANGED <<chains, refs, sessVars, chainVars, acceptVars, relayVars, tunVars, extVars>>

\* a probe that never sets the flag again
ProbeStoreKeepDead(old, res) == old /\ res

\* health.go 55-63: the flag after the probe has compared and stored
ProbeStore(old, res) == IF res # old THEN res ELSE old

\* health.go 45-63: the probe of Proxy object p: checkProxyAlive returns up
\* or down, the result is compared with the flag, a transition is logged when
\* they differ, and the result is stored.  (A dial's Store(false) between the
\* Load and the Store leaves the flag and the log as if it had come just
\* before or just after them.)
Probe(p) ==
    /\ p \in DOMAIN probing
    /\ probing[p] = "todo"
    /\ \E got \in {"up", "down"} :
         LET res == got = "up"
             old == palive[p]
             logs == IF res # old THEN 1 ELSE 0
         IN /\ palive' = [palive EXCEPT ![p] = ProbeStore(old, res)]
            /\ streak' = [streak EXCEPT ![p] =
                            IF @.outcome = got
                            THEN [@ EXCEPT !.logs = @ + logs]
                            ELSE [outcome |-> got, logs |-> logs]]
    /\ markedSince' = markedSince \ {p}
    /\ probing' = [probing EXCEPT ![p] = "done"]
    /\ UNCHANGED <<loaded, userChains, cfgChains, hopRR, csCache, csRefs, retiring,
                   reloads, lastReload, hticks, collected, sess, dials>>
    /\ UNCHANGED expVars
    /\ UNCHANGED <<chains, refs, sessVars, chainVars, acceptVars, relayVars, tunVars, extVars>>

\* health.go 66: wg.Wait() returns, the tick is over
HealthWait ==
    /\ DOMAIN probing # {}
    /\ \A p \in DOMAIN probing : probing[p] = "done"
    /\ probing' = <<>>
    /\ UNCHANGED <<loaded, userChains, cfgChains, palive, hopRR, csCache, csRefs,
                   retiring, reloads, lastReload, hticks, collected, markedSince,
                   streak, sess, dials>>
    /\ UNCHANGED expVars
    /\ UNCHANGED <<chains, refs, sessVars, chainVars, acceptVars, relayVars, tunVars, extVars>>

\* chain.go 42-47 on ChainState object o: the live Proxy objects in pool order
LiveObjs(o) ==
    SelectSeq([i \in DOMAIN HopNames(Entry(o).Chain) |->
                  <<o[1], o[2], HopNames(Entry(o).Chain)[i]>>],
              LAMBDA p : palive[p])

\* server.go 140-148, 231-233: a session authenticates as u, binds the
\* ChainState the table holds for u and acquires it
SessBind(u) ==
    /\ sess.pc = "idle"
    /\ dials < MaxDials
    /\ dials' = dials + 1
    /\ u \in DOMAIN userChains
    /\ sess' = [st |-> userChains[u], pc |-> "dial"]
    /\ csRefs' = [csRefs EXCEPT ![userChains[u]] = @ + 1]
    /\ UNCHANGED <<loaded, userChains, cfgChains, palive, hopRR, csCache, retiring,
                   reloads, lastReload, hticks, probing, collected, markedSince,
                   streak>>
    /\ UNCHANGED expVars
    /\ UNCHANGED <<chains, refs, sessVars, chainVars, acceptVars, relayVars, tunVars, extVars>>

\* chain.go 103-113: the fast path: the cached combo connects and lastUsed is
\* set, or its proxy is marked dead (139) and the cache is dropped
SessFast ==
    /\ sess.pc = "dial"
    /\ csCache[sess.st] # <<>>
    /\ \/ /\ sess' = [sess EXCEPT !.pc = "dialed"]
          /\ csUsed' = [csUsed EXCEPT ![sess.st] = cnow]
          /\ UNCHANGED <<palive, markedSince, csCache>>
       \/ /\ palive' = [palive EXCEPT ![csCache[sess.st][1]] = FALSE]
          /\ markedSince' = markedSince \cup {csCache[sess.st][1]}
          /\ csCache' = [csCache EXCEPT ![sess.st] = <<>>]
          /\ sess' = [sess EXCEPT !.pc = "slow"]
          /\ UNCHANGED csUsed
    /\ UNCHANGED <<loaded, userChains, cfgChains, hopRR, csRefs, retiring, reloads,
                   lastReload, hticks, probing, collected, streak, dials>>
    /\ UNCHANGED <<cnow, due, cleared>>
    /\ UNCHANGED <<chains, refs, sessVars, chainVars, acceptVars, relayVars, tunVars, extVars>>

\* chain.go 114-123, 147-165: the slow path over the one hop: orderedProxies
\* (round robin), then the candidates in order; the first j fail and are
\* marked dead (139), the next one connects and is cached
SessSlow ==
    /\ \/ sess.pc = "dial" /\ csCache[sess.st] = <<>>
       \/ sess.pc = "slow"
    /\ LET o == sess.st
           live == LiveObjs(o)
           list == IF live = <<>> THEN <<>> ELSE Rotate(live, hopRR[o] % Len(live))
       IN /\ hopRR' = [hopRR EXCEPT ![o] = IF live = <<>> THEN @ ELSE @ + 1]
          /\ \E j \in 0..Len(list) :
               /\ palive' = [p \in AllProxyObjs |->
                               IF \E i \in 1..j : list[i] = p THEN FALSE ELSE palive[p]]
               /\ markedSince' = markedSince \cup {list[i] : i \in 1..j}
               /\ csCache' = [csCache EXCEPT ![o] =
                                IF j < Len(list) THEN <<list[j + 1]>> ELSE <<>>]
               /\ csUsed' = [csUsed EXCEPT ![o] = IF j < Len(list) THEN cnow ELSE @]
    /\ sess' = [sess EXCEPT !.pc = "dialed"]
    /\ UNCHANGED <<loaded, userChains, cfgChains, csRefs, retiring, reloads,
                   lastReload, hticks, probing, collected, streak, dials>>
    /\ UNCHANGED <<cnow, due, cleared>>
    /\ UNCHANGED <<chains, refs, sessVars, chainVars, acceptVars, relayVars, tunVars, extVars>>

\* server.go 233: handleConn returns and the deferred release runs
SessEnd ==
    /\ sess.pc = "dialed"
    /\ csRefs' = [csRefs EXCEPT ![sess.st] = @ - 1]
    /\ sess' = [st |-> NoState, pc |-> "idle"]
    /\ UNCHANGED <<loaded, userChains, cfgChains, palive, hopRR, csCache, retiring,
                   reloads, lastReload, hticks, probing, collected, markedSince,
                   streak, dials>>
    /\ UNCHANGED expVars
    /\ UNCHANGED <<chains, refs, sessVars, chainVars, acceptVars, relayVars, tunVars, extVars>>

\* the session of the control-plane model
SessStep ==
    \/ \E u \in {"u1", "u2"} : SessBind(u)
    \/ SessFast
    \/ SessSlow
    \/ SessEnd

\* reloads of every kind against a session
InitReload ==
    /\ chains = NoTable
    /\ SessionStart
    /\ ChainQuiet
    /\ AcceptStart(0)
    /\ RelayStartState
    /\ ControlStart(FileOne)
    /\ TunnelQuiet
    /\ ExtQuiet

NextReload ==
    \/ \E f \in ReloadFiles : Reload(f)
    \/ \E o \in AllStates : CleanupChain(o)
    \/ SessStep

SpecReload == InitReload /\ [][NextReload]_vars

\* health ticks against a session and reloads of an unchanged file
InitHealth ==
    /\ chains = NoTable
    /\ SessionStart
    /\ ChainQuiet
    /\ AcceptStart(0)
    /\ RelayStartState
    /\ ControlStart(FileSolo)
    /\ TunnelQuiet
    /\ ExtQuiet

NextHealth ==
    \/ Reload(FileSolo)
    \/ \E o \in AllStates : CleanupChain(o)
    \/ HealthCollect
    \/ \E p \in AllProxyObjs : Probe(p)
    \/ HealthWait
    \/ SessStep

SpecHealth == InitHealth /\ [][NextHealth]_vars



\* C13: a reload that gives an existing user the same password and the same
\* chain configuration publishes the same ChainState object for that user
\* and schedules no retirement for it, whatever dials, selector calls and
\* health transitions came before (Reload itself leaves every cache and
\* every refs as they are).
C13_ReloadKeepsIdentity ==
    (lastReload.seen /\ ~lastReload.failed) =>
        \A u \in DOMAIN lastReload.table :
            \A i \in DOMAIN lastReload.file.chains :
                LET e == lastReload.file.chains[i] IN
                (/\ e.Username = u
                 /\ e.Password = lastReload.entries[u].Password
                 /\ e.Chain = lastReload.entries[u].Chain) =>
                    /\ u \in DOMAIN lastReload.tableAfter
                    /\ lastReload.tableAfter[u] = lastReload.table[u]
                    /\ lastReload.table[u] \notin lastReload.scheduled

\* C14: a reload tick whose file fails to load or validate, or lists a user
\* name twice, changes nothing: the published table, every cache, every
\* refs, the configuration the health prober walks and the set of scheduled
\* retirements are as before.
C14_FailedReloadDropped ==
    [][(/\ reloads' # reloads
        /\ LET es == lastReload'.file.chains IN
           \/ ~lastReload'.file.valid
           \/ \E i, j \in DOMAIN es : i # j /\ es[i].Username = es[j].Username)
       => UNCHANGED <<userChains, csCache, csRefs, cfgChains, loaded, retiring>>]_vars

\* C14 witness: the last reload tick found the file with the duplicate user
\* name while the published ChainState of u1 held a cached combo and a
\* reference
C14_Witness ==
    /\ lastReload.seen
    /\ lastReload.file = FileDup
    /\ "u1" \in DOMAIN userChains
    /\ csCache[userChains["u1"]] # <<>>
    /\ csRefs[userChains["u1"]] > 0

\* C15: after a completed probe of a proxy, and with no dial failure on it
\* since, its alive flag is the outcome of that probe: false after a failed
\* probe, true after a successful one; and a proxy whose flag is true is in
\* the selector's list.
C15_ProbeSetsFlag ==
    /\ \A p \in AllProxyObjs :
          (streak[p].outcome # "none" /\ p \notin markedSince) =>
              (palive[p] <=> streak[p].outcome = "up")
    /\ \A g \in DOMAIN loaded : \A i \in DOMAIN loaded[g] :
          \A p \in ProxiesOf(<<g, i>>) :
              palive[p] <=> p \in Range(LiveObjs(<<g, i>>))

\* C15 witness: a proxy that was dead has been probed with success (one
\* "recovered" logged), is alive, and the dialer has cached it
C15_Witness ==
    \E p \in AllProxyObjs :
        /\ streak[p] = [outcome |-> "up", logs |-> 1]
        /\ p \notin markedSince
        /\ palive[p]
        /\ csCache[<<p[1], p[2]>>] = <<p>>
        /\ sess.pc = "dialed"

\* C16: at every health tick the proxies collected for probing include every
\* proxy of every ChainState of the table published at that moment, after
\* reloads too.
C16_AllPublishedProbed ==
    collected.seen => collected.published \subseteq collected.proxies

\* C17: in a run of successive probes of one proxy that all return the same
\* outcome, at most one transition message is logged for it.
C17_OneTransitionPerRun ==
    \A p \in AllProxyObjs : streak[p].logs <= 1


(***************************************************************************)
(* The combo-cache expirer, startChainCacheCleanup (chain.go 289-313),     *)
(* with ttl = Ttl > 0.                                                     *)
(***************************************************************************)
\* an expirer that finds no entry too old
ExpiredNever(age) == FALSE

\* chain.go 303: now.Sub(st.cache.lastUsed) > ttl
Expired(age) == age > Ttl

\* chain.go 298-307: the ticker fires; every ChainState of the published
\* table whose cache is set and too old has it cleared
ExpireTick ==
    /\ cnow = due
    /\ due' = due + Ttl
    /\ LET old == {userChains[u] : u \in
                     {v \in DOMAIN userChains :
                         /\ csCache[userChains[v]] # <<>>
                         /\ Expired(cnow - csUsed[userChains[v]])}}
       IN /\ csCache' = [o \in AllStates |-> IF o \in old THEN <<>> ELSE csCache[o]]
          /\ cleared' = cleared \cup {[obj |-> o, age |-> cnow - csUsed[o]] : o \in old}
    /\ UNCHANGED <<loaded, userChains, cfgChains, palive, hopRR, csRefs, retiring,
                   reloads, lastReload, hticks, probing, collected, markedSince,
                   streak, sess, dials, csUsed, cnow>>
    /\ UNCHANGED <<chains, refs, sessVars, chainVars, acceptVars, relayVars, tunVars, extVars>>

\* time passes, up to the moment the ticker fires next
ClockTick ==
    /\ cnow < due
    /\ cnow < MaxClock
    /\ cnow' = cnow + 1
    /\ UNCHANGED <<loaded, userChains, cfgChains, palive, hopRR, csCache, csRefs,
                   retiring, reloads, lastReload, hticks, probing, collected,
                   markedSince, streak, sess, dials, csUsed, due, cleared>>
    /\ UNCHANGED <<chains, refs, sessVars, chainVars, acceptVars, relayVars, tunVars, extVars>>

InitExpire ==
    /\ chains = NoTable
    /\ SessionStart
    /\ ChainQuiet
    /\ AcceptStart(0)
    /\ RelayStartState
    /\ ControlStart(FileOne)
    /\ TunnelQuiet
    /\ ExtQuiet

NextExpire ==
    \/ ExpireTick
    \/ ClockTick
    \/ Reload(FileOne)
    \/ \E o \in AllStates : CleanupChain(o)
    \/ SessStep

SpecExpire == InitExpire /\ [][NextExpire]_vars

\* C19: for every ChainState of the published table whose cache is set, the
\* entry was no older than ttl when the expirer last ticked, so its age is
\* never more than ttl plus one tick period of the expirer (which is ttl);
\* and the expirer clears only entries older than ttl, so an entry used
\* within every ttl is never cleared by it.
C19_CacheExpiry ==
    /\ \A u \in DOMAIN userChains :
          LET o == userChains[u] IN
          csCache[o] # <<>> =>
              /\ cnow - csUsed[o] <= Ttl + Ttl
              /\ due > Ttl => (due - Ttl) - csUsed[o] <= Ttl
    /\ \A c \in cleared : c.age > Ttl

\* C19 witness: the expirer has cleared an entry that was older than ttl,
\* and the published ChainState of u1 now holds a later entry
C19_Witness ==
    /\ cleared # {}
    /\ "u1" \in DOMAIN userChains
    /\ csCache[userChains["u1"]] # <<>>
    /\ csUsed[userChains["u1"]] > 0
    /\ due - Ttl >= csUsed[userChains["u1"]]
    /\ cnow > csUsed[userChains["u1"]]


\* C20: after the shutdown signal no session is started any more, the accept
\* loop is left, and, every session having finished, main returns.
C20_ShutdownTerminates ==
    /\ [][ctxDone => \A c \in Conns : status[c] = "pending" => status'[c] = "pending"]_vars
    /\ ctxDone ~> (apc = "returned" /\ doneClosed /\ wg = 0)


(***************************************************************************)
(* A relay in flight when the shutdown signal arrives (part_002 61-66,      *)
(* server.go 227-271).  handleConn is given no context: its dial context    *)
(* comes from context.Background() and proxy takes the two connections only.*)
(***************************************************************************)
NextShutdownRelay ==
    \/ NextRelay
    \/ Signal

SpecShutdownRelay == InitRelay /\ [][NextShutdownRelay]_vars

\* the scheduling of FairSpecRelay, and the signal goroutine runs on a signal
FairSpecShutdownRelay ==
    /\ SpecShutdownRelay
    /\ \A t \in Tasks : WF_vars(CopyStep(t))
    /\ WF_vars(ProxyReturn)
    /\ WF_vars(RelayTick)

\* C21: once the root context is cancelled, the session in the relay comes to
\* have both of its connections closed and proxy returns, whatever the peers
\* go on sending.
C21_CancelTearsDown ==
    ctxDone ~> (returned /\ closed["a"] /\ closed["b"])


(***************************************************************************)
(* One upstream establishment message by message: connectThrough and       *)
(* connectProxy (chain.go 126-287) under the dial of handleConn            *)
(* (server.go 227-272).  dialChain calls connectThrough on one combination *)
(* after another; here any combination of the chain may come next.         *)
(***************************************************************************)
\* chain.go 191: the proxies configured with a user name or password
HasCreds == [p \in Proxies |-> p \in {"Q", "B"}]
\* chain.go 212-213: hop.Username and hop.Password
Creds(p) == IF HasCreds[p] THEN <<"user", "pw">> ELSE <<"", "">>
\* chain.go 190-194: the methods of the greeting
OfferedMethods(p) == IF HasCreds[p] THEN <<0, 2>> ELSE <<0>>
\* the method replies an upstream may send: VER, METHOD
MethodReplies == {<<5, 0>>, <<5, 2>>, <<5, 255>>, <<4, 0>>}
\* REP and ATYP of the CONNECT replies an upstream may send
ConnectReps == {0, 5}
ConnectAtyps == {1, 3, 4, 9}
\* the chains of the dialing session; <<>> is the direct dial
TunnelChains == {<<"h1", "h2">>, <<"h2">>, <<>>}

\* a message of the handshake with hop number i over connection c
Msg(kind, i, c) ==
    [kind |-> kind, hop |-> i, sock |-> c, methods |-> <<>>, reply |-> <<>>,
     creds |-> <<>>, target |-> ""]

\* a Close that leaves the connection open
CloseSockNothing(sk, c) == sk

\* conn.Close() on connection number c (0: there is none)
CloseSock(sk, c) == IF c = 0 THEN sk ELSE [sk EXCEPT ![c].open = FALSE]

\* what the actions of this part leave alone
TunnelFrame ==
    /\ UNCHANGED <<net, strategy, rrCount, priorityRR, cache, now, dial, calls>>
    /\ UNCHANGED <<chains, refs, sessVars, acceptVars, relayVars, ctlVars, extVars>>

\* chain.go 198-199 and the like, 138-141: connectProxy closes the connection
\* and returns an error; connectThrough marks the hop dead and returns
HopFails(msgs) ==
    /\ socks' = CloseSock(socks, tun.conn)
    /\ alive' = MarkDead(tun.combo, tun.i)
    /\ tun' = [tun EXCEPT !.pc = "idle", !.result = "err", !.failed = tun.i,
                          !.sent = @ \o msgs]

\* chain.go 126-129, 147-150: connectThrough is called on a combination
ConnectThroughStart(combo) ==
    /\ hs.pc = "dial"
    /\ hs.chain # <<>>
    /\ tun.pc = "idle"
    /\ tun.result # "ok"
    /\ tun.attempts < MaxAttempts
    /\ tun' = [pc |-> "hop", combo |-> combo, i |-> 1, conn |-> 0,
               base |-> Len(socks), sent |-> <<>>, alive0 |-> alive,
               result |-> "none", failed |-> 0, attempts |-> tun.attempts + 1]
    /\ UNCHANGED <<alive, socks, hs>>
    /\ TunnelFrame

\* chain.go 130-137, 167-188: connectProxy for hop i; without a previous
\* conduit it dials the hop, else it takes the conduit
ConnectProxyDial ==
    /\ tun.pc = "hop"
    /\ IF tun.conn = 0
       THEN \E ok \in BOOLEAN :
              IF ok
              THEN /\ socks' = Append(socks, [peer |-> tun.combo[tun.i], open |-> TRUE])
                   /\ tun' = [tun EXCEPT !.conn = Len(socks) + 1, !.pc = "greeting"]
                   /\ UNCHANGED alive
              ELSE HopFails(<<>>)
       ELSE /\ tun' = [tun EXCEPT !.pc = "greeting"]
            /\ UNCHANGED <<socks, alive>>
    /\ UNCHANGED hs
    /\ TunnelFrame

\* chain.go 189-200: the greeting with the offered methods is written
ConnectProxyGreeting ==
    /\ tun.pc = "greeting"
    /\ LET m == [Msg("greeting", tun.i, tun.conn) EXCEPT
                    !.methods = OfferedMethods(tun.combo[tun.i])]
       IN \E wok \in BOOLEAN :
            IF wok
            THEN /\ tun' = [tun EXCEPT !.pc = "method", !.sent = Append(@, m)]
                 /\ UNCHANGED <<socks, alive>>
            ELSE HopFails(<<m>>)
    /\ UNCHANGED hs
    /\ TunnelFrame

\* chain.go 201-211, 236-239: the method reply is read and judged
ConnectProxyMethod ==
    /\ tun.pc = "method"
    /\ \E ok \in BOOLEAN, r \in MethodReplies :
         LET m == [Msg("method_reply", tun.i, tun.conn) EXCEPT !.reply = r] IN
         IF ~ok THEN HopFails(<<>>)
         ELSE IF r[1] # 5 THEN HopFails(<<m>>)
         ELSE IF r[2] = 2
         THEN /\ tun' = [tun EXCEPT !.pc = "auth", !.sent = Append(@, m)]
              /\ UNCHANGED <<socks, alive>>
         ELSE IF r[2] # 0 THEN HopFails(<<m>>)
         ELSE /\ tun' = [tun EXCEPT !.pc = "request", !.sent = Append(@, m)]
              /\ UNCHANGED <<socks, alive>>
    /\ UNCHANGED hs
    /\ TunnelFrame

\* chain.go 211-235: the user name and password of the hop are written and
\* the status is read
ConnectProxyAuth ==
    /\ tun.pc = "auth"
    /\ LET m == [Msg("auth", tun.i, tun.conn) EXCEPT
                    !.creds = Creds(tun.combo[tun.i])]
       IN \E ok \in BOOLEAN :
            IF ok
            THEN /\ tun' = [tun EXCEPT !.pc = "request", !.sent = Append(@, m)]
                 /\ UNCHANGED <<socks, alive>>
            ELSE HopFails(<<m>>)
    /\ UNCHANGED hs
    /\ TunnelFrame

\* chain.go 240-252: the CONNECT request for the next endpoint is written
ConnectProxyRequest ==
    /\ tun.pc = "request"
    /\ LET m == [Msg("connect", tun.i, tun.conn) EXCEPT
                    !.target = NextTarget(tun.combo, tun.i)]
       IN \E wok \in BOOLEAN :
            IF wok
            THEN /\ tun' = [tun EXCEPT !.pc = "reply", !.sent = Append(@, m)]
                 /\ UNCHANGED <<socks, alive>>
            ELSE HopFails(<<m>>)
    /\ UNCHANGED hs
    /\ TunnelFrame

\* chain.go 253-286, 138-144: the CONNECT reply is read; on success the loop
\* of connectThrough goes on to the next hop over the same conduit or returns it
ConnectProxyReply ==
    /\ tun.pc = "reply"
    /\ \E ok \in BOOLEAN, rep \in ConnectReps, at \in ConnectAtyps :
         IF ok /\ rep = 0 /\ at \in {1, 3, 4}
         THEN /\ tun' = IF tun.i < Len(tun.combo)
                        THEN [tun EXCEPT !.i = @ + 1, !.pc = "hop"]
                        ELSE [tun EXCEPT !.pc = "idle", !.result = "ok"]
              /\ UNCHANGED <<socks, alive>>
         ELSE HopFails(<<>>)
    /\ UNCHANGED hs
    /\ TunnelFrame

\* server.go 235-238: without a chain the destination is dialed directly
DirectDial ==
    /\ hs.pc = "dial"
    /\ hs.chain = <<>>
    /\ tun.result = "none"
    /\ \E ok \in BOOLEAN :
         IF ok
         THEN /\ socks' = Append(socks, [peer |-> Target, open |-> TRUE])
              /\ tun' = [tun EXCEPT !.conn = Len(socks) + 1, !.result = "ok"]
         ELSE /\ tun' = [tun EXCEPT !.result = "err"]
              /\ UNCHANGED socks
    /\ UNCHANGED <<alive, hs>>
    /\ TunnelFrame

\* server.go 12, 239-247: the dial has returned an error; the failure reply is
\* written and handleConn returns, which closes conn
UpstreamFailed ==
    /\ hs.pc = "dial"
    /\ tun.pc = "idle"
    /\ tun.result = "err"
    /\ hs' = [hs EXCEPT !.pc = "closed", !.inbound = FALSE]
    /\ UNCHANGED <<alive, socks, tun>>
    /\ TunnelFrame

\* server.go 12, 248-270: remote.Close is deferred and the success reply is
\* written; when the write fails handleConn returns
UpstreamReplied ==
    /\ hs.pc = "dial"
    /\ tun.result = "ok"
    /\ \E wok \in BOOLEAN :
         IF wok
         THEN /\ hs' = [hs EXCEPT !.pc = "relay"]
              /\ UNCHANGED socks
         ELSE /\ hs' = [hs EXCEPT !.pc = "closed", !.inbound = FALSE]
              /\ socks' = CloseSock(socks, tun.conn)
    /\ UNCHANGED <<alive, tun>>
    /\ TunnelFrame

\* server.go 12, 251, 271-272, proxy.go 85-86: proxy returns with both
\* connections closed, and handleConn with it
UpstreamRelayDone ==
    /\ hs.pc = "relay"
    /\ hs' = [hs EXCEPT !.pc = "closed", !.inbound = FALSE]
    /\ socks' = CloseSock(socks, tun.conn)
    /\ UNCHANGED <<alive, tun>>
    /\ TunnelFrame

\* a session at its dial, with any liveness flags
InitTunnel ==
    /\ chains = NoTable
    /\ SessionStart
    /\ AcceptStart(0)
    /\ RelayStartState
    /\ ControlStart(FileOne)
    /\ alive \in [Proxies -> BOOLEAN]
    /\ net = [e \in Proxies \cup {Target} |-> "up"]
    /\ strategy = [h \in Hops |-> "rr"]
    /\ rrCount = [h \in Hops |-> 0]
    /\ priorityRR = [h \in Hops |-> [pr \in {Priority[p] : p \in Proxies} |-> 0]]
    /\ cache = [u \in DOMAIN chains |-> NoCache]
    /\ now = 0
    /\ dial = [d \in AllCallers |-> IdleDial]
    /\ calls = 0
    /\ tun = NoTunnel
    /\ socks = <<>>
    /\ hs \in [pc : {"dial"}, chain : TunnelChains, inbound : {TRUE}]
    /\ ExtQuiet

NextTunnel ==
    \/ \E combo \in Combos(hs.chain) : ConnectThroughStart(combo)
    \/ ConnectProxyDial
    \/ ConnectProxyGreeting
    \/ ConnectProxyMethod
    \/ ConnectProxyAuth
    \/ ConnectProxyRequest
    \/ ConnectProxyReply
    \/ DirectDial
    \/ UpstreamFailed
    \/ UpstreamReplied
    \/ UpstreamRelayDone

SpecTunnel == InitTunnel /\ [][NextTunnel]_vars

(***************************************************************************)
(* Properties of connectThrough and connectProxy (SpecTunnel).             *)
(***************************************************************************)
\* C25: when connectThrough fails at hop i, the alive flag of combo[i] and of
\* no other proxy has been set to false, no hop after i has been sent
\* anything, and an error is returned; while it runs and when it succeeds no
\* alive flag is changed.
C25_FailureMarksOneHop ==
    tun.combo # <<>> =>
        /\ tun.result = "err" =>
              /\ tun.pc = "idle"
              /\ tun.failed \in 1..Len(tun.combo)
              /\ \A p \in Proxies :
                    alive[p] = (tun.alive0[p] /\ p # tun.combo[tun.failed])
              /\ \A k \in DOMAIN tun.sent : tun.sent[k].hop <= tun.failed
        /\ tun.result # "err" => alive = tun.alive0

\* C25 witness: a two-hop combination of live proxies failed at its second
\* hop; the second proxy is dead and the first still alive
C25_Witness ==
    /\ Len(tun.combo) = 2
    /\ tun.result = "err"
    /\ tun.failed = 2
    /\ tun.alive0[tun.combo[1]] /\ tun.alive0[tun.combo[2]]
    /\ alive[tun.combo[1]]
    /\ ~alive[tun.combo[2]]

\* C26: connectThrough opens at most one TCP connection, to combo[1]; every
\* message of every hop goes over that connection, hop by hop in combo order,
\* a hop's handshake beginning only after the CONNECT of the hop before it;
\* hop i is asked to CONNECT to combo[i+1] and the last hop to the final
\* destination; the conduit returned on success is that connection.
C26_SingleConduit ==
    LET n == Len(tun.combo)
        st == tun.sent
    IN  n > 0 =>
        /\ Len(socks) <= tun.base + 1
        /\ Len(socks) = tun.base + 1 => socks[tun.base + 1].peer = tun.combo[1]
        /\ \A k \in DOMAIN st : st[k].sock = tun.base + 1
        /\ st # <<>> => st[1].hop = 1 /\ st[1].kind = "greeting"
        /\ \A k \in 1..(Len(st) - 1) :
              \/ st[k + 1].hop = st[k].hop /\ st[k + 1].kind # "greeting"
              \/ /\ st[k + 1].hop = st[k].hop + 1
                 /\ st[k].kind = "connect"
                 /\ st[k + 1].kind = "greeting"
        /\ \A k \in DOMAIN st :
              st[k].kind = "connect" =>
                  st[k].target = IF st[k].hop < n THEN tun.combo[st[k].hop + 1]
                                 ELSE Target
        /\ tun.result = "ok" =>
              /\ tun.conn = tun.base + 1
              /\ hs.pc = "dial" => socks[tun.conn].open
              /\ \A i \in 1..n :
                    \E k \in DOMAIN st : st[k].hop = i /\ st[k].kind = "connect"

\* C26 witness: a two-hop connectThrough has succeeded, its second hop with a
\* username/password exchange
C26_Witness ==
    /\ Len(tun.combo) = 2
    /\ tun.result = "ok"
    /\ Len(socks) = 1
    /\ \E k \in DOMAIN tun.sent : tun.sent[k].kind = "auth" /\ tun.sent[k].hop = 2

\* C28: every greeting of connectProxy offers <<0>> for a hop without
\* credentials and <<0, 2>> for a hop with them; after a method reply whose
\* version is not 5 or whose method was not offered nothing more is sent, the
\* connection is closed and an error is returned.
C28_MethodNegotiation ==
    \A k \in DOMAIN tun.sent :
        LET m == tun.sent[k]
            offered == IF HasCreds[tun.combo[m.hop]] THEN {0, 2} ELSE {0}
        IN  /\ m.kind = "greeting" =>
                  m.methods = IF HasCreds[tun.combo[m.hop]] THEN <<0, 2>> ELSE <<0>>
            /\ (m.kind = "method_reply" /\ (m.reply[1] # 5 \/ m.reply[2] \notin offered)) =>
                  /\ k = Len(tun.sent)
                  /\ tun.result = "err"
                  /\ ~socks[m.sock].open

\* C29: between the connectThrough calls of a failing dial, and after it has
\* returned an error, no TCP connection it opened is open; after a success
\* only the conduit returned is open; once handleConn has returned, its
\* inbound connection and every outbound connection are closed.
C29_NoSocketLeak ==
    LET open == {c \in DOMAIN socks : socks[c].open} IN
    /\ (tun.pc = "idle" /\ tun.result # "ok") => open = {}
    /\ tun.result = "ok" => open \subseteq {tun.conn}
    /\ open \subseteq {Len(socks)}
    /\ hs.pc = "closed" => ~hs.inbound /\ open = {}
    /\ hs.pc # "closed" => hs.inbound

\* C29 witness: the session has ended after a failed attempt, which opened a
\* connection, and a successful one
C29_Witness ==
    /\ hs.pc = "closed"
    /\ tun.result = "ok"
    /\ tun.attempts = 2
    /\ Len(socks) = 2
    /\ ~socks[1].open /\ ~socks[2].open



(***************************************************************************)
(* orderedProxies on its own (chain.go 40-97): two goroutines call it on   *)
(* the hop h3, whose pool is P, Q, A, B, while a probe or a failed dial    *)
(* changes a flag.  A call reads the flags, then does its fetch-and-add.   *)
(***************************************************************************)
MaxSel == 3
\* the proxies whose flag changes while the calls run
FlipProxies == {"B"}
\* the counters at the start of a run: fresh, or one short of the wrap
\* (2^32-1, held as -1)
CounterStarts == {0, -1}

\* chain.go 42-47: caller c has read the flags of the pool
SelFilter(c) ==
    /\ sel[c].pc = "idle"
    /\ Len(selLog) + Cardinality({k \in SelCallers : sel[k].pc = "filtered"}) < MaxSel
    /\ sel' = [sel EXCEPT ![c] = [pc |-> "filtered", list |-> AliveList(SelHop)]]
    /\ UNCHANGED <<selLog, retVars, hc>>
    /\ UNCHANGED <<chains, refs, sessVars, chainVars, acceptVars, relayVars, ctlVars,
                   tunVars>>

\* chain.go 59-96: caller c orders what it filtered: the fetch-and-add on the
\* counters of its strategy, the rotation, the return
SelOrder(c) ==
    /\ sel[c].pc = "filtered"
    /\ \E o \in OrderFrom(SelHop, sel[c].list) :
         /\ rrCount' = [rrCount EXCEPT ![SelHop] = o.rr]
         /\ priorityRR' = [priorityRR EXCEPT ![SelHop] = o.prr]
         /\ selLog' = Append(selLog, [caller |-> c, list |-> sel[c].list,
                                      rr |-> rrCount[SelHop],
                                      prr |-> priorityRR[SelHop], out |-> o.list])
    /\ sel' = [sel EXCEPT ![c] = IdleSel]
    /\ UNCHANGED <<alive, net, strategy, cache, now, dial, calls>>
    /\ UNCHANGED <<retVars, hc>>
    /\ UNCHANGED <<chains, refs, sessVars, acceptVars, relayVars, ctlVars, tunVars>>

\* health.go 61, chain.go 139: a probe or a failed dial stores the flag of p
SetAlive(p) ==
    /\ alive' = [alive EXCEPT ![p] = ~@]
    /\ UNCHANGED <<net, strategy, rrCount, priorityRR, cache, now, dial, calls>>
    /\ UNCHANGED extVars
    /\ UNCHANGED <<chains, refs, sessVars, acceptVars, relayVars, ctlVars, tunVars>>

InitSelect ==
    /\ chains = NoTable
    /\ SessionStart
    /\ AcceptStart(0)
    /\ RelayStartState
    /\ ControlStart(FileOne)
    /\ TunnelQuiet
    /\ ExtQuiet
    /\ alive \in [Proxies -> BOOLEAN]
    /\ net = [e \in Proxies \cup {Target} |-> "up"]
    /\ strategy \in [{SelHop} -> {"rr", "priority"}]
    /\ rrCount \in [{SelHop} -> CounterStarts]
    /\ priorityRR \in [{SelHop} -> [{Priority[p] : p \in Proxies} -> CounterStarts]]
    /\ cache = [u \in DOMAIN chains |-> NoCache]
    /\ now = 0
    /\ dial = [d \in AllCallers |-> IdleDial]
    /\ calls = 0

NextSelect ==
    \/ \E c \in SelCallers : SelFilter(c)
    \/ \E c \in SelCallers : SelOrder(c)
    \/ \E p \in FlipProxies : SetAlive(p)

SpecSelect == InitSelect /\ [][NextSelect]_vars

\* the calls that found an alive proxy, in the order of their counter reads
SelCalls == SelectSeq(selLog, LAMBDA e : e.list # <<>>)

\* the value 2^32-1 of a uint32 counter, after which the next add wraps to 0
AtWrap(v) == v = -1

\* the statement of C36 over the calls logged so far; withWrap tells whether
\* runs of calls whose counter wraps from 2^32-1 to 0 are covered as well
RoundRobinCalls(withWrap) ==
    strategy[SelHop] = "rr" =>
        /\ \A i \in DOMAIN SelCalls :
              /\ SelCalls[i].out =
                    SubSeq(SelCalls[i].list,
                           U32Mod(SelCalls[i].rr, Len(SelCalls[i].list)) + 1,
                           Len(SelCalls[i].list))
                    \o SubSeq(SelCalls[i].list, 1,
                              U32Mod(SelCalls[i].rr, Len(SelCalls[i].list)))
              /\ (IF i < Len(SelCalls) THEN SelCalls[i + 1].rr ELSE rrCount[SelHop]) =
                    IF AtWrap(SelCalls[i].rr) THEN 0 ELSE SelCalls[i].rr + 1
        /\ \A i, j \in DOMAIN SelCalls : i # j => SelCalls[i].rr # SelCalls[j].rr
        /\ \A i \in DOMAIN SelCalls :
              LET n == Len(SelCalls[i].list) IN
              (/\ i + n - 1 <= Len(SelCalls)
               /\ \A k \in i..(i + n - 1) : SelCalls[k].list = SelCalls[i].list
               /\ withWrap \/ \A k \in i..(i + n - 2) : ~AtWrap(SelCalls[k].rr))
              => \A k, m \in i..(i + n - 1) :
                    k # m => SelCalls[k].out[1] # SelCalls[m].out[1]

IndexOf(q, p) == CHOOSE i \in DOMAIN q : q[i] = p

\* the statement of C37 over the calls logged so far; withWrap as for C36
PriorityCalls(withWrap) ==
    strategy[SelHop] = "priority" =>
        \A i \in DOMAIN SelCalls :
            LET e == SelCalls[i]
                after == IF i < Len(SelCalls) THEN SelCalls[i + 1].prr
                         ELSE priorityRR[SelHop]
            IN  /\ Len(e.out) = Len(e.list) /\ Range(e.out) = Range(e.list)
                /\ \A a, b \in DOMAIN e.out :
                      a < b => Priority[e.out[a]] >= Priority[e.out[b]]
                /\ \A pr \in DOMAIN e.prr :
                      LET grp == SelectSeq(e.list, LAMBDA p : Priority[p] = pr)
                          got == SelectSeq(e.out, LAMBDA p : Priority[p] = pr)
                          k == U32Mod(e.prr[pr], Len(grp))
                      IN
                      IF Len(grp) > 1
                      THEN /\ got = SubSeq(grp, k + 1, Len(grp)) \o SubSeq(grp, 1, k)
                           /\ after[pr] = IF AtWrap(e.prr[pr]) THEN 0 ELSE e.prr[pr] + 1
                           /\ (/\ i < Len(SelCalls)
                               /\ SelCalls[i + 1].list = e.list
                               /\ withWrap \/ ~AtWrap(e.prr[pr])) =>
                                 IndexOf(grp, SelectSeq(SelCalls[i + 1].out,
                                                        LAMBDA p : Priority[p] = pr)[1]) =
                                    (IndexOf(grp, got[1]) % Len(grp)) + 1
                      ELSE /\ got = grp
                           /\ after[pr] = e.prr[pr]

InFlightPcs == {"running", "checked"}
\* the probes of tick t that hold a token
Holders(t) == {q \in hc.probes : q.tick = t /\ q.pc \in InFlightPcs}

\* a wait that returns at once
RoundOverAlways == TRUE

\* health.go 66: wg.Wait() returns: every probe goroutine has called wg.Done
RoundOver == \A q \in hc.probes : q.pc = "done"

\* a semaphore that always takes another token
SemHasRoomAlways(t) == TRUE

\* health.go 41, 47: the send on the semaphore of tick t can proceed
SemHasRoom(t) == Cardinality(Holders(t)) < hc.cap

\* health.go 26-45: the ticker fires, the checker collects the proxies, makes
\* the WaitGroup and the semaphore of the tick and starts the probes
HcTick ==
    /\ hc.tick < MaxHealthTicks
    /\ RoundOver
    /\ hc' = [hc EXCEPT !.tick = @ + 1,
                        !.probes = {q \in @ : q.pc # "done"} \cup
                                   {[p |-> p, tick |-> hc.tick + 1, pc |-> "spawned"] :
                                       p \in Proxies}]
    /\ UNCHANGED <<retVars, selVars>>
    /\ UNCHANGED <<chains, refs, sessVars, chainVars, acceptVars, relayVars, ctlVars,
                   tunVars>>

\* a step of probe q that leaves it at position to
HcMove(q, to) == hc' = [hc EXCEPT !.probes = (@ \ {q}) \cup {[q EXCEPT !.pc = to]}]

\* health.go 47: sem <- struct{}{}
HcAcquire(q) ==
    /\ q \in hc.probes /\ q.pc = "spawned"
    /\ SemHasRoom(q.tick)
    /\ HcMove(q, "running")
    /\ UNCHANGED <<retVars, selVars>>
    /\ UNCHANGED <<chains, refs, sessVars, chainVars, acceptVars, relayVars, ctlVars,
                   tunVars>>

\* health.go 49-63: checkProxyAlive, then the flag is stored when it differs
HcCheck(q) ==
    /\ q \in hc.probes /\ q.pc = "running"
    /\ \E res \in BOOLEAN : alive' = [alive EXCEPT ![q.p] = ProbeStore(@, res)]
    /\ HcMove(q, "checked")
    /\ UNCHANGED <<net, strategy, rrCount, priorityRR, cache, now, dial, calls>>
    /\ UNCHANGED <<retVars, selVars>>
    /\ UNCHANGED <<chains, refs, sessVars, acceptVars, relayVars, ctlVars, tunVars>>

\* health.go 48: the deferred <-sem
HcRelease(q) ==
    /\ q \in hc.probes /\ q.pc = "checked"
    /\ HcMove(q, "released")
    /\ UNCHANGED <<retVars, selVars>>
    /\ UNCHANGED <<chains, refs, sessVars, chainVars, acceptVars, relayVars, ctlVars,
                   tunVars>>

\* health.go 46: the deferred wg.Done()
HcDone(q) ==
    /\ q \in hc.probes /\ q.pc = "released"
    /\ HcMove(q, "done")
    /\ UNCHANGED <<retVars, selVars>>
    /\ UNCHANGED <<chains, refs, sessVars, chainVars, acceptVars, relayVars, ctlVars,
                   tunVars>>

\* every probe there can be
AllProbes == [p : Proxies, tick : 1..MaxHealthTicks,
              pc : {"spawned", "running", "checked", "released", "done"}]

\* the checker before its first tick; health_check_concurrency is positive
\* (part_013 94-96, 123-125)
InitProbe ==
    /\ chains = NoTable
    /\ SessionStart
    /\ ChainQuiet
    /\ AcceptStart(0)
    /\ RelayStartState
    /\ ControlStart(FileOne)
    /\ TunnelQuiet
    /\ rsess = [s \in RSessions |-> NoRSess]
    /\ cleanup = [o \in AllStates |-> "none"]
    /\ pendingTable = NoPending
    /\ retLog = {}
    /\ published = {}
    /\ sel = [c \in SelCallers |-> IdleSel]
    /\ selLog = <<>>
    /\ \E n \in 1..MaxCap : hc = [NoChecker EXCEPT !.cap = n]

NextProbe ==
    \/ HcTick
    \/ \E q \in AllProbes : HcAcquire(q)
    \/ \E q \in AllProbes : HcCheck(q)
    \/ \E q \in AllProbes : HcRelease(q)
    \/ \E q \in AllProbes : HcDone(q)

SpecProbe == InitProbe /\ [][NextProbe]_vars

\* C38: at no time do more probes hold a token than health_check_concurrency,
\* and every probe that has not finished belongs to the current tick: the
\* probes of a tick have all finished before those of the next tick start.
C38_BoundedProbes ==
    /\ Cardinality({q \in hc.probes : q.pc \in InFlightPcs}) <= hc.cap
    /\ \A q \in hc.probes : q.pc # "done" => q.tick = hc.tick

\* C38 witness: in the second tick, with a cap of two, two probes are in
\* flight and the two others wait for a token
C38_Witness ==
    /\ hc.tick = 2 /\ hc.cap = 2
    /\ Cardinality({q \in hc.probes : q.pc \in InFlightPcs}) = 2
    /\ Cardinality({q \in hc.probes : q.pc = "spawned"}) = 2
(***************************************************************************)
(* Two sessions in dialChain at once (chain.go 99-124): UserA and UserB    *)
(* have chains of the same structure, the one hop h2; each ChainState may  *)
(* hold a combo an earlier call cached.                                    *)
(***************************************************************************)
PairTable == [u \in {UserA, UserB} |-> [password |-> PassA, chain |-> <<"h2">>]]
\* the cachedChain an earlier call left in the ChainState of user u
EarlierEntry(u) ==
    [id |-> IF u = UserA THEN -1 ELSE -2, combo |-> <<"A">>, lastUsed |-> 0]

InitChainPair ==
    /\ chains = PairTable
    /\ refs = [u \in DOMAIN chains |-> 0]
    /\ SessionStart
    /\ AcceptStart(0)
    /\ RelayStartState
    /\ alive = [p \in Proxies |-> TRUE]
    /\ net = [e \in Proxies \cup {Target} |-> "flaky"]
    /\ strategy = [h \in Hops |-> "rr"]
    /\ rrCount = [h \in Hops |-> 0]
    /\ priorityRR = [h \in Hops |-> [pr \in {Priority[p] : p \in Proxies} |-> 0]]
    /\ cache \in [DOMAIN chains -> {NoCache} \cup {EarlierEntry(u) : u \in DOMAIN chains}]
    /\ \A u \in DOMAIN chains : cache[u] \in {NoCache, EarlierEntry(u)}
    /\ now = 0
    /\ dial = [d \in AllCallers |-> IdleDial]
    /\ calls = 0
    /\ ControlStart(FileOne)
    /\ TunnelQuiet
    /\ ExtQuiet

NextChainPair ==
    \/ \E d \in AllCallers : \E u \in DOMAIN chains : DialChainStart(d, u)
    \/ \E d \in AllCallers : DialStep(d)
    \/ \E d \in AllCallers : DialChainReturn(d)

SpecChainPair == InitChainPair /\ [][NextChainPair]_vars

\* the cache slot of user u holds nothing, or one combo of the length of the
\* chain with a proxy of each hop
SlotComplete(u) ==
    \/ cache[u] = NoCache
    \/ cache[u].combo \in Combos(chains[u].chain)

\* C33: when a call's fast path has failed and another call has meanwhile put
\* a different entry into the slot, the invalidation leaves that entry in the
\* slot; and the slot always holds nothing or one complete combo.
C33_InvalidateOnlyTried ==
    /\ [](\A u \in DOMAIN chains : SlotComplete(u))
    /\ [][\A d \in AllCallers :
            (/\ dial[d].pc = "invalidate"
             /\ dial'[d].pc # "invalidate"
             /\ cache[dial[d].user] # NoCache
             /\ cache[dial[d].user].id # dial[d].cached.id)
            => cache'[dial[d].user] = cache[dial[d].user]]_vars

\* C34: a step of a dialChain call changes no cache slot but that of the
\* call's own user, the call has read that slot and no other, and no cached
\* entry is in the slots of two ChainStates.
C34_CacheIsolation ==
    /\ [](\A u, v \in DOMAIN chains :
            (u # v /\ cache[u] # NoCache) => cache[u].id # cache[v].id)
    /\ [][\A u \in DOMAIN chains :
            cache'[u] # cache[u] =>
                \E d \in AllCallers : dial[d].user = u /\ dial'[d] # dial[d]]_vars
    /\ [][\A d \in AllCallers :
            (dial[d].pc = "idle" /\ dial'[d].pc # "idle") =>
                dial'[d].cached = cache[dial'[d].user]]_vars

\* C34 witness: the two callers have dialed for the two users and each
\* ChainState holds its own entry with the same combo
C34_Witness ==
    /\ dial["d1"].pc = "done" /\ dial["d2"].pc = "done"
    /\ dial["d1"].user # dial["d2"].user
    /\ cache[UserA].id > 0 /\ cache[UserB].id > 0
    /\ cache[UserA].combo = cache[UserB].combo
    /\ cache[UserA].id # cache[UserB].id
(***************************************************************************)
(* Retirement (reload.go 41-85) against sessions (part_002 104-107,        *)
(* server.go 147-157, 231-233, chain.go 99-124) and shutdown.  A reload    *)
(* tick builds the new map and starts a cleanupChain goroutine for every   *)
(* displaced ChainState before it stores the map; a session loads the      *)
(* table once, authenticates against it, and acquires its ChainState when  *)
(* it dials.                                                               *)
(***************************************************************************)
\* what a reload tick finds in the file: a changed password, a second user,
\* the first configuration again
RetireFiles == {FilePass, FileTwo, FileOne}

\* reload.go 43-55: the map a tick that loaded f builds
ReloadUpdated(f) ==
    LET newChains == BuildUserChains(Len(loaded) + 1, f.chains)
    IN  [u \in DOMAIN newChains |->
            IF /\ u \in DOMAIN userChains
               /\ SameChainState(userChains[u], newChains[u], f.chains[newChains[u][2]])
            THEN userChains[u] ELSE newChains[u]]

\* reload.go 50, 56-60: the ChainStates that tick hands to cleanupChain
ReloadDisplaced(f) ==
    {userChains[u] : u \in {v \in DOMAIN userChains :
                              v \notin DOMAIN ReloadUpdated(f)
                              \/ ReloadUpdated(f)[v] # userChains[v]}}

\* the rest of the control plane stays as it is
RetireFrame ==
    /\ UNCHANGED <<palive, hopRR, retiring, lastReload, hticks, probing, collected,
                   markedSince, streak, sess, dials>>
    /\ UNCHANGED expVars
    /\ UNCHANGED <<selVars, hc>>
    /\ UNCHANGED <<chains, refs, sessVars, chainVars, relayVars, tunVars>>

\* reload.go 30-60: a tick loads f, builds the new map and starts the
\* cleanupChain goroutines
RetReloadBuild(f) ==
    /\ reloads < MaxReloads
    /\ pendingTable = NoPending
    /\ reloads' = reloads + 1
    /\ loaded' = Append(loaded, f.chains)
    /\ pendingTable' = [seen |-> TRUE, table |-> ReloadUpdated(f)]
    /\ cleanup' = [o \in AllStates |->
                     IF o \in ReloadDisplaced(f) THEN "check" ELSE cleanup[o]]
    /\ UNCHANGED <<userChains, cfgChains, csCache, csRefs, rsess, retLog, published>>
    /\ UNCHANGED acceptVars
    /\ RetireFrame

\* reload.go 61-63: cfg.Chains is set and the new map is stored
RetReloadStore ==
    /\ pendingTable # NoPending
    /\ userChains' = pendingTable.table
    /\ cfgChains' = Len(loaded)
    /\ published' = published \cup {pendingTable.table}
    /\ pendingTable' = NoPending
    /\ UNCHANGED <<loaded, reloads, csCache, csRefs, rsess, cleanup, retLog>>
    /\ UNCHANGED acceptVars
    /\ RetireFrame

\* a cleanupChain step that moves the goroutine of o to position to
CleanupMove(o, to) == cleanup' = [cleanup EXCEPT ![o] = to]

\* reload.go 74: atomic.LoadInt32(&cs.refs) <= 0
CleanupCheck(o) ==
    /\ cleanup[o] = "check"
    /\ CleanupMove(o, IF csRefs[o] <= 0 THEN "clear" ELSE "wait")
    /\ UNCHANGED <<loaded, userChains, cfgChains, reloads, csCache, csRefs, rsess,
                   pendingTable, retLog, published>>
    /\ UNCHANGED acceptVars
    /\ RetireFrame

\* reload.go 75-76, chain.go 34-38: cs.clearCache(), and the goroutine returns
CleanupClear(o) ==
    /\ cleanup[o] = "clear"
    /\ csCache' = [csCache EXCEPT ![o] = <<>>]
    /\ retLog' = retLog \cup {[o |-> o, refs |-> csRefs[o], ctx |-> ctxDone,
                               published |-> \E u \in DOMAIN userChains :
                                                userChains[u] = o]}
    /\ CleanupMove(o, "done")
    /\ UNCHANGED <<loaded, userChains, cfgChains, reloads, csRefs, rsess, pendingTable,
                   published>>
    /\ UNCHANGED acceptVars
    /\ RetireFrame

\* reload.go 78-82: the select takes the tick of the 100 ms ticker (also when
\* ctx.Done() is ready as well: select picks among the ready cases)
CleanupWake(o) ==
    /\ cleanup[o] = "wait"
    /\ CleanupMove(o, "check")
    /\ UNCHANGED <<loaded, userChains, cfgChains, reloads, csCache, csRefs, rsess,
                   pendingTable, retLog, published>>
    /\ UNCHANGED acceptVars
    /\ RetireFrame

\* reload.go 78-80: the select takes ctx.Done() and the goroutine returns
CleanupQuit(o) ==
    /\ cleanup[o] = "wait"
    /\ ctxDone
    /\ CleanupMove(o, "quit")
    /\ UNCHANGED <<loaded, userChains, cfgChains, reloads, csCache, csRefs, rsess,
                   pendingTable, retLog, published>>
    /\ UNCHANGED acceptVars
    /\ RetireFrame

\* a step of session s that leaves it as r
RsMove(s, r) == rsess' = [rsess EXCEPT ![s] = r]

\* part_002 83, 104-107: a connection is accepted and its goroutine loads the
\* published table for handleConn
RsAccept(s) ==
    /\ rsess[s].pc = "idle"
    /\ lnOpen
    /\ RsMove(s, [rsess[s] EXCEPT !.pc = "accepted", !.table = userChains])
    /\ UNCHANGED <<loaded, userChains, cfgChains, reloads, csCache, csRefs, cleanup,
                   pendingTable, retLog, published>>
    /\ UNCHANGED acceptVars
    /\ RetireFrame

\* a lookup in the table that is published now
AuthTableLive(s) == userChains

\* server.go 147: chains, the table handleConn was given
AuthTable(s) == rsess[s].table

\* server.go 147-157: the client authenticates as u: the ChainState of u in
\* the table becomes the session's state, or there is none and the session ends
RsAuth(s, u) ==
    /\ rsess[s].pc = "accepted"
    /\ RsMove(s, IF u \in DOMAIN AuthTable(s)
                 THEN [rsess[s] EXCEPT !.pc = "bound", !.user = u,
                                       !.st = AuthTable(s)[u]]
                 ELSE [rsess[s] EXCEPT !.pc = "closed", !.user = u])
    /\ UNCHANGED <<loaded, userChains, cfgChains, reloads, csCache, csRefs, cleanup,
                   pendingTable, retLog, published>>
    /\ UNCHANGED acceptVars
    /\ RetireFrame

\* server.go 231-232, chain.go 30: state.acquire() before the dial
RsAcquire(s) ==
    /\ rsess[s].pc = "bound"
    /\ csRefs' = [csRefs EXCEPT ![rsess[s].st] = @ + 1]
    /\ RsMove(s, [rsess[s] EXCEPT !.pc = "dial"])
    /\ UNCHANGED <<loaded, userChains, cfgChains, reloads, csCache, cleanup,
                   pendingTable, retLog, published>>
    /\ UNCHANGED acceptVars
    /\ RetireFrame

\* chain.go 100-103: dialChain reads the cache of the state
RsLoad(s) ==
    /\ rsess[s].pc = "dial"
    /\ RsMove(s, [rsess[s] EXCEPT !.seen = csCache[rsess[s].st],
                                  !.pc = IF csCache[rsess[s].st] # <<>> THEN "fast"
                                         ELSE "slow"])
    /\ UNCHANGED <<loaded, userChains, cfgChains, reloads, csCache, csRefs, cleanup,
                   pendingTable, retLog, published>>
    /\ UNCHANGED acceptVars
    /\ RetireFrame

\* chain.go 104-113: the cached combo connects, or it fails and the slot is
\* emptied
RsFast(s) ==
    /\ rsess[s].pc = "fast"
    /\ \/ /\ RsMove(s, [rsess[s] EXCEPT !.pc = "relay"])
          /\ UNCHANGED csCache
       \/ /\ csCache' = [csCache EXCEPT ![rsess[s].st] = <<>>]
          /\ RsMove(s, [rsess[s] EXCEPT !.pc = "slow"])
    /\ UNCHANGED <<loaded, userChains, cfgChains, reloads, csRefs, cleanup,
                   pendingTable, retLog, published>>
    /\ UNCHANGED acceptVars
    /\ RetireFrame

\* chain.go 114-123: the search finds a combo and stores it, or it fails
RsSlow(s) ==
    /\ rsess[s].pc = "slow"
    /\ \/ /\ \E p \in ProxiesOf(rsess[s].st) :
                csCache' = [csCache EXCEPT ![rsess[s].st] = <<p>>]
          /\ RsMove(s, [rsess[s] EXCEPT !.pc = "relay"])
       \/ /\ UNCHANGED csCache
          /\ RsMove(s, [rsess[s] EXCEPT !.pc = "failed"])
    /\ UNCHANGED <<loaded, userChains, cfgChains, reloads, csRefs, cleanup,
                   pendingTable, retLog, published>>
    /\ UNCHANGED acceptVars
    /\ RetireFrame

\* server.go 232, chain.go 31: handleConn returns and the deferred
\* state.release() runs
RsRelease(s) ==
    /\ rsess[s].pc \in {"relay", "failed"}
    /\ csRefs' = [csRefs EXCEPT ![rsess[s].st] = @ - 1]
    /\ RsMove(s, [rsess[s] EXCEPT !.pc = "closed"])
    /\ UNCHANGED <<loaded, userChains, cfgChains, reloads, csCache, cleanup,
                   pendingTable, retLog, published>>
    /\ UNCHANGED acceptVars
    /\ RetireFrame

\* the server in service: the startup table is published, the ChainState of
\* u1 may hold a combo an earlier session cached
InitRetire ==
    /\ chains = NoTable
    /\ SessionStart
    /\ ChainQuiet
    /\ AcceptStart(0)
    /\ RelayStartState
    /\ loaded = <<FileOne.chains>>
    /\ userChains = BuildUserChains(1, FileOne.chains)
    /\ cfgChains = 1
    /\ palive = [p \in AllProxyObjs |-> TRUE]
    /\ hopRR = [o \in AllStates |-> 0]
    /\ csCache \in {[o \in AllStates |-> IF o = <<1, 1>> THEN c ELSE <<>>] :
                      c \in {<<>>, <<<<1, 1, "P">>>>}}
    /\ csRefs = [o \in AllStates |-> 0]
    /\ retiring = {}
    /\ reloads = 0
    /\ lastReload = NoReload
    /\ hticks = 0
    /\ probing = <<>>
    /\ collected = NoCollect
    /\ markedSince = {}
    /\ streak = [p \in AllProxyObjs |-> [outcome |-> "none", logs |-> 0]]
    /\ sess = [st |-> NoState, pc |-> "idle"]
    /\ dials = 0
    /\ csUsed = [o \in AllStates |-> 0]
    /\ cnow = 0
    /\ due = Ttl
    /\ cleared = {}
    /\ TunnelQuiet
    /\ rsess = [s \in RSessions |-> NoRSess]
    /\ cleanup = [o \in AllStates |-> "none"]
    /\ pendingTable = NoPending
    /\ retLog = {}
    /\ published = {userChains}
    /\ sel = [c \in SelCallers |-> IdleSel]
    /\ selLog = <<>>
    /\ hc = NoChecker

NextRetire ==
    \/ \E f \in RetireFiles : RetReloadBuild(f)
    \/ RetReloadStore
    \/ \E o \in AllStates : CleanupCheck(o)
    \/ \E o \in AllStates : CleanupClear(o)
    \/ \E o \in AllStates : CleanupWake(o)
    \/ \E o \in AllStates : CleanupQuit(o)
    \/ Signal
    \/ \E s \in RSessions : RsAccept(s)
    \/ \E s \in RSessions : \E u \in {"u1", "u2"} : RsAuth(s, u)
    \/ \E s \in RSessions : RsAcquire(s)
    \/ \E s \in RSessions : RsLoad(s)
    \/ \E s \in RSessions : RsFast(s)
    \/ \E s \in RSessions : RsSlow(s)
    \/ \E s \in RSessions : RsRelease(s)

SpecRetire == InitRetire /\ [][NextRetire]_vars

\* C31: every clear of a cache by a cleanupChain goroutine found refs at
\* zero at the moment of the clear, and none came after the root context was
\* cancelled.
C31_ClearOnlyAtZero == \A e \in retLog : e.refs = 0 /\ ~e.ctx

\* C32: a ChainState whose cache a cleanupChain goroutine cleared when it was
\* no longer in the published table has an empty cache ever after.
C32_RetiredStaysEmpty == \A e \in retLog : ~e.published => csCache[e.o] = <<>>

\* C35: a session takes the published table when it is accepted and keeps it:
\* no step changes the table or the bound ChainState of a live session, the
\* bound ChainState is the one its table holds for the user, and the table
\* of every session is one that was published as a whole.
C35_SessionSnapshot ==
    /\ [](\A s \in RSessions :
            /\ rsess[s].pc # "idle" => rsess[s].table \in published
            /\ rsess[s].st # NoState => rsess[s].st = rsess[s].table[rsess[s].user])
    /\ [][\A s \in RSessions :
            /\ (rsess[s].pc = "idle" /\ rsess'[s].pc # "idle") =>
                  rsess'[s].table = userChains
            /\ rsess[s].pc # "idle" => rsess'[s].table = rsess[s].table
            /\ rsess[s].st # NoState => rsess'[s].st = rsess[s].st]_vars

\* C35 witness: a session accepted before a reload has authenticated after
\* it and is bound to the ChainState of its own table, which the published
\* table no longer holds
C35_Witness ==
    \E s \in RSessions :
        /\ rsess[s].pc = "dial"
        /\ rsess[s].table # userChains
        /\ reloads > 0
        /\ \A u \in DOMAIN userChains : userChains[u] # rsess[s].st
====================
